---- MODULE Spec2Model ----
(***************************************************************************)
(* Session management of the web client: the persisted AuthState, the      *)
(* RemotePluginAuth operations that mutate it (connectServer, loginUser,   *)
(* logoutUser, logoutCurrentUser, deleteServer) and the two forced         *)
(* sign-out interceptors of the shared axios instance.                     *)
(* The Pinia auth store (store/auth.ts) keeps the same AuthState; its      *)
(* actions are modelled beside them, as are the set and remove calls of    *)
(* RemotePluginAxios that install the interceptors.                        *)
(*                                                                         *)
(* JavaScript runs one task at a time: an async function runs without      *)
(* interruption up to its next `await`, so every action below is one such  *)
(* synchronous stretch.  A call suspended at an `await` is a record in the *)
(* bag `tasks`; other calls may run between its suspension and resumption. *)
(*                                                                         *)
(* Strings whose characters matter (addresses, version strings) are        *)
(* sequences of one-character strings.  Array positions are 0-based as in  *)
(* the source; the element at position i of an array a is a[i + 1].        *)
(***************************************************************************)
EXTENDS Integers, Sequences, FiniteSets, Bags, TLC

VARIABLES
  servers,             \* state.value.servers: array of ServerInfo
  currentServerIndex,  \* state.value.currentServerIndex
  currentUserIndex,    \* state.value.currentUserIndex
  users,               \* state.value.users: array of UserDto
  rememberMe,          \* state.value.rememberMe
  accessTokens,        \* state.value.accessTokens: user id -> token
  tasks,               \* the async calls suspended at an await, a bag
  ev,                  \* what the step just taken did to its collaborators
  outstanding,         \* the logout() requests sent and not yet answered
  loading,             \* the loading counter and the requests of the shared instance
  baseURL,             \* $axios.defaults.baseURL of the Pinia auth store
  interceptors         \* the handlers and the handles of RemotePluginAxios

authVars == <<servers, currentServerIndex, currentUserIndex, users, rememberMe, accessTokens>>
vars == <<servers, currentServerIndex, currentUserIndex, users, rememberMe, accessTokens,
          tasks, ev, outstanding, loading, baseURL,
          interceptors>>

----------------------------------------------------------------------------
(* Bounds of the model *)

MaxServers == 3
MaxUsers == 2
MaxInFlight == 2
MaxUrlLen == 4
MaxVerLen == 5
MaxOutstanding == 2
MaxRequests == 2
MaxLoading == 3
MaxMissing == 1
MaxHandlers == 5

----------------------------------------------------------------------------
(* Values *)

ServerIds == {"A", "B"}
UserIds == {"u1", "u2"}
Tokens == {"t1"}
NoToken == "none"
NoId == "none"
Undefined == <<"undefined">>

UrlAlphabet == {"a", "/", " "}
VerAlphabet == {"0", "1", "6", "7", "9", "x", "."}

StringsOver(alphabet, n) == UNION {[1..k -> alphabet] : k \in 0..n}

\* The addresses and versions the calls of Spec are made with.
RawUrls == {<<"a">>, <<"b", "/">>}
Addresses == {<<"a">>, <<"b">>}
SupportedVersion == <<"1", "0", ".", "7">>
Versions == {SupportedVersion, <<"1", "0", ".", "6">>, Undefined}

\* The addresses and versions of SpecUrl and SpecVersion: every string.
AllUrls == StringsOver(UrlAlphabet, MaxUrlLen)
VersionExamples ==
  {<<"1", "0", ".", "6", ".", "9">>, <<"1", "0", ".", "7", ".", "0">>,
   <<"1", "0", ".", "1", "0", ".", "0">>, <<" ", "1", "0", ".", " ", "7">>,
   <<"-", "1", "1", ".", "0">>, <<"+", "1", "1">>, <<"1", "0", ".", "-", "7">>,
   <<"1", "0", " ", ".", "7">>, <<"0", "X", "b", ".", "0">>}
AllVersions == StringsOver(VerAlphabet, MaxVerLen) \cup VersionExamples \cup {Undefined}

\* The server that answers at an address when every address keeps its server
HostOf(serverUrl) == IF serverUrl = <<"a">> THEN "A" ELSE "B"

----------------------------------------------------------------------------
(* Strings *)

IsSpace(c) == c = " "

RECURSIVE TrimStart(_)
TrimStart(s) ==
  IF s # <<>> /\ IsSpace(Head(s)) THEN TrimStart(Tail(s)) ELSE s

RECURSIVE TrimEnd(_)
TrimEnd(s) ==
  IF s # <<>> /\ IsSpace(s[Len(s)]) THEN TrimEnd(SubSeq(s, 1, Len(s) - 1)) ELSE s

\* String.prototype.trim
Trim(s) == TrimEnd(TrimStart(s))

\* s.replace(/\/$/, ''): removes a slash that is the last character
ReplaceTrailingSlash(s) ==
  IF s # <<>> /\ s[Len(s)] = "/" THEN SubSeq(s, 1, Len(s) - 1) ELSE s

\* serverUrl.replace(/\/$/, '').trim()
NormalizeServerUrl(serverUrl) == Trim(ReplaceTrailingSlash(serverUrl))

\* String.prototype.split('.'): the components between the dots
RECURSIVE SplitDots(_, _, _)
SplitDots(s, cur, acc) ==
  IF s = <<>> THEN Append(acc, cur)
  ELSE IF Head(s) = "." THEN SplitDots(Tail(s), <<>>, Append(acc, cur))
  ELSE SplitDots(Tail(s), Append(cur, Head(s)), acc)

Split(s) == SplitDots(s, <<>>, <<>>)

\* serv.Version?.split('.')[i]: undefined when Version is missing or has no component i
VersionComponent(version, i) ==
  IF version = Undefined THEN Undefined
  ELSE IF i + 1 <= Len(Split(version)) THEN Split(version)[i + 1]
  ELSE Undefined

DigitChars == {"0", "1", "2", "3", "4", "5", "6", "7", "8", "9"}
HexChars == DigitChars \cup {"a", "b", "c", "d", "e", "f"}

DigitValue(c) ==
  CASE c = "0" -> 0 [] c = "1" -> 1 [] c = "2" -> 2 [] c = "3" -> 3
    [] c = "4" -> 4 [] c = "5" -> 5 [] c = "6" -> 6 [] c = "7" -> 7
    [] c = "8" -> 8 [] c = "9" -> 9 [] c = "a" -> 10 [] c = "b" -> 11
    [] c = "c" -> 12 [] c = "d" -> 13 [] c = "e" -> 14 [] c = "f" -> 15

NaN == [nan |-> TRUE, val |-> 0]
Num(n) == [nan |-> FALSE, val |-> n]

\* The digits of radix `radix` that s starts with, accumulated left to right
RECURSIVE ParseDigits(_, _, _, _)
ParseDigits(s, radix, seen, acc) ==
  IF s # <<>> /\ Head(s) \in (IF radix = 16 THEN HexChars ELSE DigitChars)
  THEN ParseDigits(Tail(s), radix, TRUE, acc * radix + DigitValue(Head(s)))
  ELSE IF seen THEN Num(acc) ELSE NaN

\* Number.parseInt(string) with no radix argument: leading white space is
\* skipped, a sign is read, a 0x prefix selects radix 16, and the digits up to
\* the first other character are the value; NaN when there is no digit.
ParseInt(string) ==
  LET s == TrimStart(string)
      neg == s # <<>> /\ Head(s) = "-"
      t == IF s # <<>> /\ Head(s) \in {"-", "+"} THEN Tail(s) ELSE s
      hex == Len(t) >= 2 /\ t[1] = "0" /\ t[2] \in {"x", "X"}
      r == ParseDigits(IF hex THEN SubSeq(t, 3, Len(t)) ELSE t, IF hex THEN 16 ELSE 10, FALSE, 0)
  IN IF string = Undefined THEN NaN
     ELSE IF r.nan THEN NaN
     ELSE Num(IF neg THEN 0 - r.val ELSE r.val)

\* a > n and a >= n and a === n for a possibly-NaN a: false when a is NaN
Greater(a, n) == ~a.nan /\ a.val > n
AtLeast(a, n) == ~a.nan /\ a.val >= n
StrictEq(a, n) == ~a.nan /\ a.val = n

semverMajor(version) == ParseInt(VersionComponent(version, 0))
semverMinor(version) == ParseInt(VersionComponent(version, 1))

\* A gate that asks for a minor above 7
isServerVersionSupportedAbove(version) ==
  Greater(semverMajor(version), 10)
    \/ (StrictEq(semverMajor(version), 10) /\ Greater(semverMinor(version), 7))

isServerVersionSupported(version) ==
  Greater(semverMajor(version), 10)
    \/ (StrictEq(semverMajor(version), 10) /\ AtLeast(semverMinor(version), 7))

----------------------------------------------------------------------------
(* Arrays *)

\* Array.prototype.findIndex: the 0-based position of the first element
\* satisfying Test, or -1
FindIndex(array, Test(_)) ==
  IF \E i \in 1..Len(array) : Test(array[i])
  THEN (CHOOSE i \in 1..Len(array) : Test(array[i]) /\ \A j \in 1..(i - 1) : ~Test(array[j])) - 1
  ELSE -1

\* array.splice(start, 1): a negative start counts from the end
Splice(array, start) ==
  LET from == IF start < 0
              THEN (IF Len(array) + start < 0 THEN 0 ELSE Len(array) + start)
              ELSE (IF start > Len(array) THEN Len(array) ELSE start)
  IN IF from < Len(array)
     THEN SubSeq(array, 1, from) \o SubSeq(array, from + 2, Len(array))
     ELSE array

IdsOf(array) == {array[i].Id : i \in 1..Len(array)}

----------------------------------------------------------------------------
(* Getters of RemotePluginAuth *)

\* currentServer / currentUser: servers[currentServerIndex], undefined when
\* the index is not a position of the array
HasCurrentServer == currentServerIndex >= 0 /\ currentServerIndex < Len(servers)
HasCurrentUser == currentUserIndex >= 0 /\ currentUserIndex < Len(users)
currentServer == servers[currentServerIndex + 1]
currentUser == users[currentUserIndex + 1]

\* getServerById: position of the first server with that Id, or -1
getServerById(srvs, serverId) == FindIndex(srvs, LAMBDA server : server.Id = serverId)

\* servers.find((s) => s.PublicAddress === serverUrl), as a position
findByAddress(srvs, serverUrl) == FindIndex(srvs, LAMBDA s : s.PublicAddress = serverUrl)

\* getUsersFromServer: the users whose ServerId is the server's Id
getUsersFromServer(us, serverId) == SelectSeq(us, LAMBDA user : user.ServerId = serverId)

----------------------------------------------------------------------------
(* Requests and response errors of the shared axios instance *)

\* The url of a request is the sequence of the pieces it is written with:
\* '/Sessions/Logout' is <<"/", "Sessions", "/", "Logout">>.  No piece is
\* part of another, so String.prototype.includes is the search for the
\* pieces in a row.
Includes(url, part) ==
  \E i \in 0..(Len(url) - Len(part)) : SubSeq(url, i + 1, i + Len(part)) = part

SessionsLogout == <<"/", "Sessions", "/", "Logout">>

\* The urls of the requests sent through the shared instance; config.url
\* may be undefined
RequestUrls ==
  {<<"/", "Items">>, SessionsLogout, <<"/", "Sessions">>,
   <<"/", "Users", "/", "u1", "/", "Sessions", "/", "Logout", "?", "all">>,
   <<"/", "Sessions", "/", "Playing", "/", "Progress">>,
   Undefined}

\* The response errors the interceptors of the shared instance are handed:
\* `status` is error.response?.status, 0 when the error has no response,
\* `code` is error.code and `url` is error.config?.url
NoError == [status |-> 0, code |-> "", url |-> Undefined]

ResponseErrors ==
  {[status |-> st, code |-> "ERR_BAD_REQUEST", url |-> u] :
     st \in {401, 404}, u \in RequestUrls}
  \cup {[status |-> 0, code |-> c, url |-> <<"/", "Items">>] :
          c \in {"ERR_NETWORK", "ECONNABORTED"}}

\* Those of them the specifications of the session operations draw from
BasicErrors ==
  {[status |-> st, code |-> "ERR_BAD_REQUEST", url |-> u] :
     st \in {401, 404}, u \in {SessionsLogout, <<"/", "Items">>}}
  \cup {[status |-> 0, code |-> "ERR_NETWORK", url |-> <<"/", "Items">>]}

----------------------------------------------------------------------------
(* Calls in flight and the effects of a step *)

\* A specification runs the operations under a mode `m`: m.cap is the number
\* of calls that may be suspended at once, m.observe whether `ev` records the
\* steps' effects, m.urls, m.ids, m.versions and m.remembers are the sets the
\* inputs are drawn from, m.steady is whether the server that answers at
\* an address is always the same one, m.track whether `outstanding`
\* follows the logout() requests, m.errors the response errors the
\* interceptors are handed, and m.follow whether an interceptor's task and
\* effects keep the error and the user that was current when it arrived.  Of a ServerInfo the model keeps Id and
\* PublicAddress, the fields the operations read, and of a UserDto Id and
\* ServerId.
Sequential ==
  [cap |-> 1, observe |-> TRUE, urls |-> RawUrls, ids |-> ServerIds, steady |-> FALSE,
   versions |-> Versions, remembers |-> BOOLEAN, track |-> FALSE,
   errors |-> BasicErrors, follow |-> FALSE]
Racing ==
  [cap |-> MaxInFlight, observe |-> FALSE, urls |-> RawUrls, ids |-> ServerIds,
   steady |-> FALSE, versions |-> {SupportedVersion}, remembers |-> {TRUE},
   track |-> FALSE, errors |-> BasicErrors, follow |-> FALSE]
Steady == [Sequential EXCEPT !.steady = TRUE]
SignOut ==
  [Steady EXCEPT !.versions = {SupportedVersion}, !.remembers = {TRUE}, !.track = TRUE]
Hooks ==
  [Steady EXCEPT !.versions = {SupportedVersion}, !.remembers = {TRUE},
                 !.errors = ResponseErrors, !.follow = TRUE]
Overlapping ==
  [Steady EXCEPT !.cap = MaxInFlight, !.versions = {SupportedVersion},
                 !.remembers = {TRUE}]
Moving == [Overlapping EXCEPT !.steady = FALSE, !.ids = ServerIds \cup {"C"}]
Reloading == [Steady EXCEPT !.versions = {SupportedVersion}, !.urls = {<<"a">>}]
EveryUrl ==
  [cap |-> 1, observe |-> TRUE, urls |-> AllUrls, ids |-> {"A"}, steady |-> FALSE,
   versions |-> {SupportedVersion}, remembers |-> {TRUE}, track |-> FALSE,
   errors |-> BasicErrors, follow |-> FALSE]
EveryVersion ==
  [cap |-> 1, observe |-> TRUE, urls |-> {<<"a">>}, ids |-> {"A"}, steady |-> FALSE,
   versions |-> AllVersions, remembers |-> {TRUE}, track |-> FALSE,
   errors |-> BasicErrors, follow |-> FALSE]

Answering(m, serverUrl) == IF m.steady THEN {HostOf(serverUrl)} ELSE m.ids

\* `startedBy` is, for a deleteServer that connectServer called without
\* awaiting it, the address and the server of that connectServer call.
NoCaller == [serverUrl |-> <<>>, id |-> NoId]

Idle == [op |-> "idle", pc |-> "", serverUrl |-> <<>>, rememberMe |-> FALSE,
         serverId |-> NoId, removed |-> FALSE, rest |-> <<>>, requests |-> 0,
         startedBy |-> NoCaller, error |-> NoError, after |-> 0]

Suspended == BagToSet(tasks)
CanSuspend(m) == BagCardinality(tasks) < m.cap
Resumed(task) == tasks (-) SetToBag({task})
Suspend(ts, task) == IF task = Idle THEN ts ELSE ts (+) SetToBag({task})

\* A step's effects: `op` names the stretch of code that ran, `outcome` is
\* "pending" when the call suspended, "resolved" when it returned, and the
\* error when it threw; `notes` are the useSnackbar messages, `nav` the
\* router.push target, `reqs` the requests issued, `requests` the number of
\* requests the call has issued from its start, `arg` the call's argument
\* (an address, the position of a user, or rememberMe), `id`, `version` and
\* `wizardCompleted` the probed server's answer, or `id` and `token` the
\* user and the token of an authenticate response, or `id` and `arg` the user
\* a logoutCurrentUser signed out and that user's server, or `error`, `id`
\* and `arg` the error an interceptor was handed and the user that was
\* current then, with that user's server.  When calls overlap, `after` is
\* the number of calls of the same operation that were in flight when the
\* call of this step was issued, and `prev` tells of the step before this
\* one: its `op`, its `after`, its `arg`, and as `id` the server or the user
\* it stored.
NoPrev == [op |-> "", id |-> NoId, after |-> 0, arg |-> <<>>]

Quiet ==
  [op |-> "", outcome |-> "", notes |-> <<>>, nav |-> "", reqs |-> <<>>,
   requests |-> 0, arg |-> <<>>, id |-> NoId, version |-> <<>>,
   wizardCompleted |-> FALSE, token |-> NoToken, error |-> NoError,
   after |-> 0, prev |-> NoPrev]

Effect(m, e) == IF m.observe THEN e ELSE Quiet

\* Overlapping calls are told apart by the order they were issued in
Ordered(m) == m.observe /\ m.cap > 1

InFlight(op) ==
  LET same == {t \in BagToSet(tasks) : t.op = op}
  IN BagCardinality([t \in same |-> tasks[t]])

IssuedAfter(m, op) == IF Ordered(m) THEN InFlight(op) ELSE 0

\* The server or the user the step with the effects `e` stored
StoredBy(e) ==
  IF e.op = "loginUser.resume" THEN e.id
  ELSE IF e.op = "connectServer.resume" /\ e.outcome = "resolved" /\ e.nav = "" THEN e.id
  ELSE NoId

Before(m) ==
  IF Ordered(m)
  THEN [op |-> ev.op, id |-> StoredBy(ev), after |-> ev.after, arg |-> ev.arg]
  ELSE NoPrev

\* logoutCurrentUser, called as `op` or by the interceptor `op`, suspended at
\* `await this.logoutUser(...)`; of the user it passed to logoutUser the
\* task keeps the Id in `serverId` and the ServerId in `rest`
SigningOut(m, op, user) ==
  IF m.observe
  THEN [Idle EXCEPT !.op = op, !.pc = "logoutUser", !.serverId = user.Id,
                    !.rest = <<user.ServerId>>]
  ELSE [Idle EXCEPT !.op = op, !.pc = "logoutUser"]

\* The logout() requests not yet answered: `running` those a deleteServer
\* that has not returned yet has sent, `other` all the others.  logoutUser
\* sends the request and does not await it (lines 226-229), so a request
\* stays outstanding until the server answers, whatever the call does next.
NoneOutstanding == [running |-> 0, other |-> 0]

\* `outstanding` after a stretch that sent the requests `reqs`; `by` is
\* "deleteServer" when a deleteServer sent them, and `returned` is whether
\* a deleteServer returned in the stretch
Sent(m, reqs, by, returned) ==
  LET sent == Len(SelectSeq(reqs, LAMBDA r : r = "logout"))
      mine == IF by = "deleteServer" THEN sent ELSE 0
  IN IF ~m.track THEN outstanding
     ELSE IF returned
     THEN [running |-> 0, other |-> outstanding.other + outstanding.running + sent]
     ELSE [running |-> outstanding.running + mine,
           other |-> outstanding.other + (sent - mine)]

\* The model follows at most MaxOutstanding unanswered requests
Followed(o) == o.running + o.other <= MaxOutstanding

\* A server object is the same object at every position it is stored at: a
\* second position arises only from connectServer pushing the object it found
\* in the array.  A suspended deleteServer holds its `server` object; once the
\* object is at no position any more, no later push brings it back (a push of
\* a found server pushes an object of the array, any other a fresh object),
\* so indexOf(server) stays -1.  `removed` records that.
MarkRemovedTask(task, srvs) ==
  IF task.op = "deleteServer" /\ task.serverId \notin IdsOf(srvs)
  THEN [task EXCEPT !.removed = TRUE]
  ELSE task

RECURSIVE CopiesOfImage(_, _, _, _)
CopiesOfImage(ts, todo, image, srvs) ==
  IF todo = {} THEN 0
  ELSE LET t == CHOOSE x \in todo : TRUE
       IN (IF MarkRemovedTask(t, srvs) = image THEN ts[t] ELSE 0)
            + CopiesOfImage(ts, todo \ {t}, image, srvs)

MarkRemoved(ts, srvs) ==
  [image \in {MarkRemovedTask(t, srvs) : t \in BagToSet(ts)} |->
     CopiesOfImage(ts, BagToSet(ts), image, srvs)]

----------------------------------------------------------------------------
(* The synchronous stretches of the operations, as functions of the state *)

\* logoutUser's finally block: the first stored user with the Id is spliced
\* out, and the token of the Id is deleted
logoutUserUsers(us, userId) ==
  LET storeUser == FindIndex(us, LAMBDA u : u.Id = userId)
  IN IF storeUser # -1 THEN Splice(us, storeUser) ELSE us

\* A finally block that leaves the token in the map
logoutUserTokensKept(toks, userId) == toks

logoutUserTokens(toks, userId) == [toks EXCEPT ![userId] = NoToken]

\* logoutUser's try block: the requests it issues
logoutUserRequests(skipRequest) == IF skipRequest THEN <<>> ELSE <<"logout">>

\* A deleteServer that splices at the position find and indexOf give it for
\* an address no server has
deleteServerBeginUnchecked(srvs, us, toks, serverUrl) ==
  LET at == findByAddress(srvs, serverUrl)
      server == srvs[at + 1]
      mine == getUsersFromServer(us, server.Id)
  IN IF at = -1
     THEN [found |-> TRUE, servers |-> Splice(srvs, -1), users |-> us,
           accessTokens |-> toks, task |-> Idle, reqs |-> <<>>]
     ELSE IF mine = <<>>
     THEN [found |-> TRUE, servers |-> Splice(srvs, at), users |-> us,
           accessTokens |-> toks, task |-> Idle, reqs |-> <<>>]
     ELSE [found |-> TRUE, servers |-> srvs,
           users |-> logoutUserUsers(us, mine[1].Id),
           accessTokens |-> logoutUserTokens(toks, mine[1].Id),
           task |-> [Idle EXCEPT !.op = "deleteServer", !.pc = "logoutUser",
                                 !.serverId = server.Id,
                                 !.rest = [i \in 1..(Len(mine) - 1) |-> mine[i + 1].Id]],
           reqs |-> logoutUserRequests(FALSE)]

\* deleteServer up to its first await, or to its end when it never awaits.
\* `task` is deleteServer suspended at `await this.logoutUser(user, server)`
\* with the users still to sign out, or Idle when it threw or returned.
deleteServerBegin(srvs, us, toks, serverUrl) ==
  LET at == findByAddress(srvs, serverUrl)
      server == srvs[at + 1]
      mine == getUsersFromServer(us, server.Id)
  IN IF at = -1
     THEN [found |-> FALSE, servers |-> srvs, users |-> us, accessTokens |-> toks,
           task |-> Idle, reqs |-> <<>>]
     ELSE IF mine = <<>>
     THEN [found |-> TRUE, servers |-> Splice(srvs, at), users |-> us,
           accessTokens |-> toks, task |-> Idle, reqs |-> <<>>]
     ELSE [found |-> TRUE, servers |-> srvs,
           users |-> logoutUserUsers(us, mine[1].Id),
           accessTokens |-> logoutUserTokens(toks, mine[1].Id),
           task |-> [Idle EXCEPT !.op = "deleteServer", !.pc = "logoutUser",
                                 !.serverId = server.Id,
                                 !.rest = [i \in 1..(Len(mine) - 1) |-> mine[i + 1].Id]],
           reqs |-> logoutUserRequests(FALSE)]

\* state.value.servers.indexOf(server) for the server a suspended deleteServer holds
indexOfHeld(srvs, task) ==
  IF task.removed THEN -1 ELSE getServerById(srvs, task.serverId)

\* lodash merge(oldServer, serv): serv's fields are written into oldServer,
\* which is the same object at every position it is stored at
mergeInPlace(srvs, serv) ==
  [i \in 1..Len(srvs) |-> IF srvs[i].Id = serv.Id THEN serv ELSE srvs[i]]

\* connectServer, lines 127-134: the server is stored
storeServer(srvs, us, toks, serv) ==
  LET oldServer == getServerById(srvs, serv.Id)
      d == deleteServerBegin(srvs, us, toks, srvs[oldServer + 1].PublicAddress)
  IN IF oldServer # -1
     THEN [servers |-> Append(mergeInPlace(d.servers, serv), serv), users |-> d.users,
           accessTokens |-> d.accessTokens, task |-> d.task, reqs |-> d.reqs]
     ELSE [servers |-> Append(srvs, serv), users |-> us, accessTokens |-> toks,
           task |-> Idle, reqs |-> <<>>]

\* connectServer, lines 136-140: the position of the first server at serverUrl
selectServer(srvs, serverUrl) == findByAddress(srvs, serverUrl)

\* A connectServer without the version gate
connectServerOutcomeUngated(version, wizardCompleted) ==
  IF ~wizardCompleted THEN "wizard" ELSE "stored"

\* A connectServer that looks at the wizard before the version
connectServerOutcomeWizardFirst(version, wizardCompleted) ==
  IF ~wizardCompleted THEN "wizard"
  ELSE IF ~isServerVersionSupported(version) THEN "Server version is too low"
  ELSE "stored"

\* What lines 118-145 do with the probed server
connectServerOutcome(version, wizardCompleted) ==
  IF ~isServerVersionSupported(version) THEN "Server version is too low"
  ELSE IF ~wizardCompleted THEN "wizard"
  ELSE "stored"

\* A logoutCurrentUser that asks for a current user only
logoutCurrentUserBeginAnyServer(skipRequest) ==
  IF HasCurrentUser
  THEN [acted |-> TRUE, users |-> logoutUserUsers(users, currentUser.Id),
        accessTokens |-> logoutUserTokens(accessTokens, currentUser.Id),
        reqs |-> logoutUserRequests(skipRequest), user |-> currentUser]
  ELSE [acted |-> FALSE, users |-> users, accessTokens |-> accessTokens, reqs |-> <<>>,
        user |-> [Id |-> NoId, ServerId |-> NoId]]

\* logoutCurrentUser up to its await: nothing when a current user or server is missing
logoutCurrentUserBegin(skipRequest) ==
  IF HasCurrentUser /\ HasCurrentServer
  THEN [acted |-> TRUE, users |-> logoutUserUsers(users, currentUser.Id),
        accessTokens |-> logoutUserTokens(accessTokens, currentUser.Id),
        reqs |-> logoutUserRequests(skipRequest), user |-> currentUser]
  ELSE [acted |-> FALSE, users |-> users, accessTokens |-> accessTokens, reqs |-> <<>>,
        user |-> [Id |-> NoId, ServerId |-> NoId]]

\* loginUser's catch block: the message of the notification, none for an
\* error that is not an AxiosError.  t(key) is written as the key.
loginErrorNotes(error) ==
  IF ~error.isAxiosError THEN <<>>
  ELSE IF ~error.hasResponse
  THEN <<IF error.message # "" THEN error.message ELSE "login.serverNotFound">>
  ELSE IF error.status = 500 \/ error.status = 401 THEN <<"incorrectUsernameOrPassword">>
  ELSE IF error.status = 400 THEN <<"badRequest">>
  ELSE <<"unexpectedError">>

\* The errors an authenticate request fails with
LoginErrors ==
  {[isAxiosError |-> FALSE, hasResponse |-> FALSE, status |-> 0, message |-> "TypeError"],
   [isAxiosError |-> TRUE, hasResponse |-> FALSE, status |-> 0, message |-> "Network Error"],
   [isAxiosError |-> TRUE, hasResponse |-> FALSE, status |-> 0, message |-> ""]}
  \cup {[isAxiosError |-> TRUE, hasResponse |-> TRUE, status |-> st, message |-> "Request failed"] :
          st \in {400, 401, 403, 500}}

\* logoutInterceptor's condition without the look at the url
logoutInterceptorAppliesToEveryUrl(error) == error.status = 401

\* logoutInterceptor's condition, lines 388-392.  auth.currentUser is the
\* computed ref itself, an object, so it is truthy whether or not a user is
\* current; `?.includes` of an undefined url is undefined, and its negation true.
logoutInterceptorApplies(error) ==
  /\ error.status = 401
  /\ TRUE
  /\ ~(error.url # Undefined /\ Includes(error.url, SessionsLogout))

\* serverUnreachableInterceptor's condition, line 406
serverUnreachableInterceptorApplies(error) == error.code = "ERR_NETWORK"

Interceptors == {"logoutInterceptor", "serverUnreachableInterceptor"}

interceptorApplies(name, error) ==
  IF name = "logoutInterceptor" THEN logoutInterceptorApplies(error)
  ELSE serverUnreachableInterceptorApplies(error)

interceptorNote(name) ==
  IF name = "logoutInterceptor" THEN "kickedOut" ELSE "serverNotFound"

----------------------------------------------------------------------------
(* The loading interceptors of the shared axios instance *)

\* `loading` is the counter of useLoading() and the bag of the urls of the
\* requests sent through the shared instance and not yet completed
NoneLoading == [count |-> 0, requests |-> EmptyBag]

\* The endpoints that give no loading signal
excludedProgressEndpoints == {<<"/", "Sessions", "/", "Playing", "/", "Progress">>}

\* loading.start() and loading.finish(): the counter of the requests in flight
loadingStart(count) == count + 1
loadingFinish(count) == count - 1

\* `if (config.url)`: undefined and the empty string are falsy
HasUrl(url) == url # Undefined /\ url # <<>>

isExcluded(url) == \E i \in excludedProgressEndpoints : Includes(url, i)

\* Lines 320-335
startLoadInterceptor(count, url) ==
  IF HasUrl(url) /\ ~isExcluded(url) THEN loadingStart(count) ELSE count

\* Lines 336-349
stopLoadInterceptor(count, url) ==
  IF HasUrl(url) /\ ~isExcluded(url) THEN loadingFinish(count) ELSE count

----------------------------------------------------------------------------
(* The interceptors of the shared axios instance (RemotePluginAxios) *)

\* axios keeps the interceptors of the requests and those of the responses
\* in two arrays of handlers: use() appends a handler and returns its
\* 0-based position, eject(id) writes null at position id when a handler is
\* there, and a request or response runs every handler that is not null.  A
\* handler is written as the name of the hook it runs.
NoHandler == "null"

use(handlers, hook) == Append(handlers, hook)

eject(handlers, id) ==
  IF id >= 0 /\ id < Len(handlers) /\ handlers[id + 1] # NoHandler
  THEN [handlers EXCEPT ![id + 1] = NoHandler]
  ELSE handlers

\* Lines 417-431: the fields of a new RemotePluginAxios, after its
\* constructor has called setLoadInterceptor, setLogoutInterceptor and
\* setServerUnreachableInterceptor
Constructed ==
  [request |-> <<"startLoadInterceptor">>,
   response |-> <<"stopLoadInterceptor", "logoutInterceptor", "serverUnreachableInterceptor">>,
   _reactiveInterceptor |-> -1,
   _logoutInterceptor |-> 1,
   _serverUnreachableInterceptor |-> 2,
   _startLoadInterceptor |-> 0,
   _stopLoadInterceptor |-> 0]

----------------------------------------------------------------------------
(* The state after construction: the defaults of useStorage('auth', ...) *)

Init ==
  /\ servers = <<>>
  /\ currentServerIndex = -1
  /\ currentUserIndex = -1
  /\ users = <<>>
  /\ rememberMe = TRUE
  /\ accessTokens = [u \in UserIds |-> NoToken]
  /\ tasks = EmptyBag
  /\ ev = Quiet
  /\ outstanding = NoneOutstanding
  /\ loading = NoneLoading
  /\ baseURL = Undefined
  /\ interceptors = Constructed

----------------------------------------------------------------------------
(* connectServer *)

\* A connectServer that gives up the probes of the calls before it
connectServerCallLatest(m) ==
  \E serverUrl \in m.urls :
    /\ CanSuspend(m)
    /\ tasks' = Suspend([t \in {x \in BagToSet(tasks) : x.op # "connectServer"} |-> tasks[t]],
                        [Idle EXCEPT !.op = "connectServer",
                                     !.pc = "getPublicSystemInfo",
                                     !.serverUrl = NormalizeServerUrl(serverUrl),
                                     !.requests = 1])
    /\ UNCHANGED <<loading, baseURL>>
    /\ UNCHANGED interceptors
    /\ ev' = Effect(m, [Quiet EXCEPT !.op = "connectServer", !.outcome = "pending",
                                     !.reqs = <<"getPublicSystemInfo">>,
                                     !.requests = 1, !.arg = serverUrl])
    /\ UNCHANGED <<authVars, outstanding>>

\* Lines 94-107: the address is normalized and the probe is issued
connectServerCall(m) ==
  \E serverUrl \in m.urls :
    /\ CanSuspend(m)
    /\ tasks' = Suspend(tasks, [Idle EXCEPT !.op = "connectServer",
                                            !.pc = "getPublicSystemInfo",
                                            !.serverUrl = NormalizeServerUrl(serverUrl),
                                            !.after = IssuedAfter(m, "connectServer"),
                                            !.requests = 1])
    /\ UNCHANGED <<loading, baseURL>>
    /\ UNCHANGED interceptors
    /\ ev' = Effect(m, [Quiet EXCEPT !.op = "connectServer", !.outcome = "pending",
                                     !.reqs = <<"getPublicSystemInfo">>,
                                     !.requests = 1, !.arg = serverUrl])
    /\ UNCHANGED <<authVars, outstanding>>

\* A catch block that issues the probe again instead of failing
connectServerCatchRetry(m) ==
  \E task \in Suspended :
    /\ task.op = "connectServer"
    /\ task.requests < 2
    /\ tasks' = Suspend(Resumed(task), [task EXCEPT !.requests = task.requests + 1])
    /\ UNCHANGED <<loading, baseURL>>
    /\ UNCHANGED interceptors
    /\ ev' = Effect(m, [Quiet EXCEPT !.op = "connectServer.catch", !.outcome = "pending",
                                     !.reqs = <<"getPublicSystemInfo">>,
                                     !.requests = task.requests + 1])
    /\ UNCHANGED <<authVars, outstanding>>

\* Lines 113-116: the probe failed
connectServerCatch(m) ==
  \E task \in Suspended :
    /\ task.op = "connectServer"
    /\ tasks' = Resumed(task)
    /\ UNCHANGED <<loading, baseURL>>
    /\ UNCHANGED interceptors
    /\ ev' = Effect(m, [Quiet EXCEPT !.op = "connectServer.catch", !.outcome = "Error",
                                     !.notes = <<"login.serverNotFound">>,
                                     !.requests = task.requests])
    /\ UNCHANGED <<authVars, outstanding>>

\* Lines 108-112 and 118-145: the probe answered
connectServerResume(m) ==
  \E task \in Suspended, id \in m.ids, version \in m.versions, wizardCompleted \in BOOLEAN :
    LET serverUrl == task.serverUrl
        serv == [Id |-> id, PublicAddress |-> serverUrl]
        outcome == connectServerOutcome(version, wizardCompleted)
        r == storeServer(servers, users, accessTokens, serv)
        started == IF r.task = Idle \/ ~m.observe THEN r.task
                   ELSE [r.task EXCEPT !.startedBy = [serverUrl |-> serverUrl, id |-> id]]
        done == [Quiet EXCEPT !.op = "connectServer.resume", !.outcome = "resolved",
                              !.arg = serverUrl, !.id = id, !.version = version,
                              !.wizardCompleted = wizardCompleted,
                              !.after = task.after, !.prev = Before(m),
                              !.requests = task.requests]
    IN /\ task.op = "connectServer"
       /\ id \in Answering(m, serverUrl)
       /\ IF outcome = "stored"
          THEN /\ Len(r.servers) <= MaxServers
               /\ servers' = r.servers
               /\ users' = r.users
               /\ accessTokens' = r.accessTokens
               /\ currentServerIndex' = selectServer(r.servers, serverUrl)
               /\ tasks' = MarkRemoved(Suspend(Resumed(task), started), r.servers)
               /\ UNCHANGED <<loading, baseURL>>
               /\ UNCHANGED interceptors
               /\ ev' = Effect(m, [done EXCEPT !.reqs = r.reqs])
               /\ outstanding' = Sent(m, r.reqs, "deleteServer", FALSE)
               /\ Followed(outstanding')
               /\ UNCHANGED <<currentUserIndex, rememberMe>>
          ELSE /\ tasks' = Resumed(task)
               /\ UNCHANGED <<loading, baseURL>>
               /\ UNCHANGED interceptors
               /\ ev' = Effect(m, IF outcome = "wizard"
                                  THEN [done EXCEPT !.nav = "/wizard"]
                                  ELSE [done EXCEPT !.outcome = outcome,
                                                    !.notes = <<"login.serverVersionTooLow">>])
               /\ UNCHANGED <<authVars, outstanding>>

----------------------------------------------------------------------------
(* loginUser *)

\* A loginUser that sends its request whether or not a server is current
loginUserCallUnchecked(m) ==
  \E remember \in m.remembers :
    /\ CanSuspend(m)
    /\ tasks' = Suspend(tasks, [Idle EXCEPT !.op = "loginUser",
                                            !.pc = "authenticateUserByName",
                                            !.rememberMe = remember,
                                            !.after = IssuedAfter(m, "loginUser"),
                                            !.serverId = IF HasCurrentServer
                                                         THEN currentServer.Id ELSE NoId,
                                            !.requests = 1])
    /\ UNCHANGED <<loading, baseURL>>
    /\ UNCHANGED interceptors
    /\ ev' = Effect(m, [Quiet EXCEPT !.op = "loginUser", !.outcome = "pending",
                                     !.reqs = <<"authenticateUserByName">>,
                                     !.requests = 1])
    /\ UNCHANGED <<authVars, outstanding>>

\* Lines 159-166: the current server is required, the request is issued
loginUserCall(m) ==
  \E remember \in m.remembers :
    IF ~HasCurrentServer
    THEN /\ UNCHANGED <<loading, baseURL>>
         /\ UNCHANGED interceptors
         /\ ev' = Effect(m, [Quiet EXCEPT !.op = "loginUser",
                                          !.outcome = "There is no server in use"])
         /\ UNCHANGED <<authVars, tasks, outstanding>>
    ELSE /\ CanSuspend(m)
         /\ tasks' = Suspend(tasks, [Idle EXCEPT !.op = "loginUser",
                                                 !.pc = "authenticateUserByName",
                                                 !.rememberMe = remember,
                                                 !.after = IssuedAfter(m, "loginUser"),
                                                 !.serverId = currentServer.Id,
                                                 !.requests = 1])
         /\ UNCHANGED <<loading, baseURL>>
         /\ UNCHANGED interceptors
         /\ ev' = Effect(m, [Quiet EXCEPT !.op = "loginUser", !.outcome = "pending",
                                          !.reqs = <<"authenticateUserByName">>,
                                          !.requests = 1])
         /\ UNCHANGED <<authVars, outstanding>>

\* A loginUser that makes the first user the current one
loginUserResumeFirst(m) ==
  \E task \in Suspended, id \in UserIds, token \in Tokens, complete \in BOOLEAN :
    LET user == [Id |-> id, ServerId |-> task.serverId]
    IN /\ task.op = "loginUser"
       /\ rememberMe' = task.rememberMe
       /\ IF complete
          THEN /\ Len(users) < MaxUsers
               /\ accessTokens' = [accessTokens EXCEPT ![id] = token]
               /\ users' = Append(users, user)
               /\ currentUserIndex' = 0
          ELSE UNCHANGED <<accessTokens, users, currentUserIndex>>
       /\ tasks' = Resumed(task)
       /\ UNCHANGED <<loading, baseURL>>
       /\ UNCHANGED interceptors
       /\ ev' = Effect(m, [Quiet EXCEPT !.op = "loginUser.resume", !.outcome = "resolved",
                                        !.arg = <<task.rememberMe>>,
                                        !.id = IF complete THEN id ELSE NoId,
                                        !.token = IF complete THEN token ELSE NoToken,
                                        !.after = task.after, !.prev = Before(m),
                                        !.requests = task.requests])
       /\ UNCHANGED <<servers, currentServerIndex, outstanding>>

\* A loginUser that makes its user the current one only when none is
loginUserResumeUnlessCurrent(m) ==
  \E task \in Suspended, id \in UserIds, token \in Tokens, complete \in BOOLEAN :
    LET user == [Id |-> id, ServerId |-> task.serverId]
    IN /\ task.op = "loginUser"
       /\ rememberMe' = task.rememberMe
       /\ IF complete
          THEN /\ Len(users) < MaxUsers
               /\ accessTokens' = [accessTokens EXCEPT ![id] = token]
               /\ users' = Append(users, user)
               /\ currentUserIndex' = IF currentUserIndex = -1 THEN Len(users)
                                      ELSE currentUserIndex
          ELSE UNCHANGED <<accessTokens, users, currentUserIndex>>
       /\ tasks' = Resumed(task)
       /\ UNCHANGED <<loading, baseURL>>
       /\ UNCHANGED interceptors
       /\ ev' = Effect(m, [Quiet EXCEPT !.op = "loginUser.resume", !.outcome = "resolved",
                                        !.arg = <<task.rememberMe>>,
                                        !.id = IF complete THEN id ELSE NoId,
                                        !.token = IF complete THEN token ELSE NoToken,
                                        !.after = task.after, !.prev = Before(m),
                                        !.requests = task.requests])
       /\ UNCHANGED <<servers, currentServerIndex, outstanding>>

\* Lines 168-175: the server authenticated the user.  The response's user
\* belongs to the server the request was sent to; `complete` is whether the
\* response carries both User.Id and AccessToken.
loginUserResume(m) ==
  \E task \in Suspended, id \in UserIds, token \in Tokens, complete \in BOOLEAN :
    LET user == [Id |-> id, ServerId |-> task.serverId]
    IN /\ task.op = "loginUser"
       /\ rememberMe' = task.rememberMe
       /\ IF complete
          THEN /\ Len(users) < MaxUsers
               /\ accessTokens' = [accessTokens EXCEPT ![id] = token]
               /\ users' = Append(users, user)
               \* indexOf(data.User): the object just pushed is at the last position only
               /\ currentUserIndex' = Len(users)
          ELSE UNCHANGED <<accessTokens, users, currentUserIndex>>
       /\ tasks' = Resumed(task)
       /\ UNCHANGED <<loading, baseURL>>
       /\ UNCHANGED interceptors
       /\ ev' = Effect(m, [Quiet EXCEPT !.op = "loginUser.resume", !.outcome = "resolved",
                                        !.arg = <<task.rememberMe>>,
                                        !.id = IF complete THEN id ELSE NoId,
                                        !.token = IF complete THEN token ELSE NoToken,
                                        !.after = task.after, !.prev = Before(m),
                                        !.requests = task.requests])
       /\ UNCHANGED <<servers, currentServerIndex, outstanding>>

\* A loginUser that has written rememberMe before its request failed
loginUserCatchRemembers(m) ==
  \E task \in Suspended, error \in LoginErrors :
    /\ task.op = "loginUser"
    /\ tasks' = Resumed(task)
    /\ rememberMe' = task.rememberMe
    /\ UNCHANGED <<loading, baseURL>>
    /\ UNCHANGED interceptors
    /\ ev' = Effect(m, [Quiet EXCEPT !.op = "loginUser.catch", !.outcome = "resolved",
                                     !.notes = loginErrorNotes(error),
                                     !.requests = task.requests])
    /\ UNCHANGED <<servers, currentServerIndex, currentUserIndex, users, accessTokens,
                   outstanding>>

\* Lines 176-194: the request failed
loginUserCatch(m) ==
  \E task \in Suspended, error \in LoginErrors :
    /\ task.op = "loginUser"
    /\ tasks' = Resumed(task)
    /\ UNCHANGED <<loading, baseURL>>
    /\ UNCHANGED interceptors
    /\ ev' = Effect(m, [Quiet EXCEPT !.op = "loginUser.catch", !.outcome = "resolved",
                                     !.notes = loginErrorNotes(error),
                                     !.requests = task.requests])
    /\ UNCHANGED <<authVars, outstanding>>

----------------------------------------------------------------------------
(* logoutUser, logoutCurrentUser *)

\* Lines 219-240, called with a stored user: it never awaits
logoutUser(m) ==
  \E i \in 1..Len(users), skipRequest \in BOOLEAN :
    /\ users' = logoutUserUsers(users, users[i].Id)
    /\ accessTokens' = logoutUserTokens(accessTokens, users[i].Id)
    /\ UNCHANGED <<loading, baseURL>>
    /\ UNCHANGED interceptors
    /\ ev' = Effect(m, [Quiet EXCEPT !.op = "logoutUser", !.outcome = "resolved",
                                     !.arg = <<i - 1>>,
                                     !.reqs = logoutUserRequests(skipRequest)])
    /\ outstanding' = Sent(m, logoutUserRequests(skipRequest), "logoutUser", FALSE)
    /\ Followed(outstanding')
    /\ UNCHANGED <<servers, currentServerIndex, currentUserIndex, rememberMe, tasks>>

\* Lines 201-207: up to `await this.logoutUser(...)`
logoutCurrentUserCall(m) ==
  \E skipRequest \in BOOLEAN :
    LET b == logoutCurrentUserBegin(skipRequest)
    IN /\ users' = b.users
       /\ accessTokens' = b.accessTokens
       /\ IF b.acted
          THEN /\ CanSuspend(m)
               /\ tasks' = Suspend(tasks, SigningOut(m, "logoutCurrentUser", b.user))
               /\ UNCHANGED <<loading, baseURL>>
               /\ UNCHANGED interceptors
               /\ ev' = Effect(m, [Quiet EXCEPT !.op = "logoutCurrentUser",
                                                !.outcome = "pending", !.reqs = b.reqs])
          ELSE /\ tasks' = tasks
               /\ UNCHANGED <<loading, baseURL>>
               /\ UNCHANGED interceptors
               /\ ev' = Effect(m, [Quiet EXCEPT !.op = "logoutCurrentUser",
                                                !.outcome = "resolved"])
       /\ outstanding' = Sent(m, b.reqs, "logoutCurrentUser", FALSE)
       /\ Followed(outstanding')
       /\ UNCHANGED <<servers, currentServerIndex, currentUserIndex, rememberMe>>

\* Line 209: after the await
logoutCurrentUserResume(m) ==
  \E task \in Suspended :
    /\ task.op = "logoutCurrentUser"
    /\ currentUserIndex' = -1
    /\ tasks' = Resumed(task)
    /\ UNCHANGED <<loading, baseURL>>
    /\ UNCHANGED interceptors
    /\ ev' = Effect(m, [Quiet EXCEPT !.op = "logoutCurrentUser.resume",
                                     !.outcome = "resolved",
                                     !.id = task.serverId, !.arg = task.rest])
    /\ UNCHANGED <<servers, currentServerIndex, users, rememberMe, accessTokens, outstanding>>

----------------------------------------------------------------------------
(* deleteServer *)

\* Lines 246-259, and 263 when the server has no user
deleteServerCall(m) ==
  \E serverUrl \in Addresses :
    LET d == deleteServerBegin(servers, users, accessTokens, serverUrl)
    IN /\ d.task # Idle => CanSuspend(m)
       /\ servers' = d.servers
       /\ users' = d.users
       /\ accessTokens' = d.accessTokens
       /\ tasks' = MarkRemoved(Suspend(tasks, d.task), d.servers)
       /\ UNCHANGED <<loading, baseURL>>
       /\ UNCHANGED interceptors
       /\ ev' = Effect(m, [Quiet EXCEPT
                             !.op = "deleteServer", !.arg = serverUrl,
                             !.outcome = IF ~d.found THEN "This server doesn't exist in the store"
                                         ELSE IF d.task # Idle THEN "pending" ELSE "resolved",
                             !.reqs = d.reqs])
       /\ outstanding' = Sent(m, d.reqs, "deleteServer", FALSE)
       /\ Followed(outstanding')
       /\ UNCHANGED <<currentServerIndex, currentUserIndex, rememberMe>>

\* Lines 258-263: after `await this.logoutUser(user, server)`, the next user
\* is signed out, or the server is spliced out after the last one
deleteServerResume(m) ==
  \E task \in Suspended :
    /\ task.op = "deleteServer"
    /\ IF task.rest # <<>>
       THEN /\ users' = logoutUserUsers(users, Head(task.rest))
            /\ accessTokens' = logoutUserTokens(accessTokens, Head(task.rest))
            /\ tasks' = Suspend(Resumed(task), [task EXCEPT !.rest = Tail(@)])
            /\ UNCHANGED <<loading, baseURL>>
            /\ UNCHANGED interceptors
            /\ ev' = Effect(m, [Quiet EXCEPT !.op = "deleteServer.resume",
                                             !.outcome = "pending",
                                             !.reqs = logoutUserRequests(FALSE)])
            /\ outstanding' = Sent(m, logoutUserRequests(FALSE), "deleteServer", FALSE)
            /\ Followed(outstanding')
            /\ UNCHANGED servers
       ELSE /\ servers' = Splice(servers, indexOfHeld(servers, task))
            /\ tasks' = MarkRemoved(Resumed(task), servers')
            /\ UNCHANGED <<loading, baseURL>>
            /\ UNCHANGED interceptors
            /\ ev' = Effect(m, [Quiet EXCEPT !.op = "deleteServer.resume",
                                             !.outcome = "resolved",
                                             !.arg = task.startedBy.serverUrl,
                                             !.id = task.startedBy.id])
            /\ outstanding' = Sent(m, <<>>, "deleteServer", TRUE)
            /\ UNCHANGED <<users, accessTokens>>
    /\ UNCHANGED <<currentServerIndex, currentUserIndex, rememberMe>>

----------------------------------------------------------------------------
(* The forced sign-out interceptors of the shared axios instance *)

\* An interceptor suspended at `await auth.logoutCurrentUser(true)`, inside
\* logoutCurrentUser at `await this.logoutUser(...)` when that call acts.
\* The task keeps the error, and of the user that was current when the
\* error arrived the Id in `serverId` and the ServerId in `rest`.
Handling(m, name, error, b) ==
  LET at == IF b.acted THEN "logoutUser" ELSE "logoutCurrentUser"
  IN IF m.follow
     THEN [Idle EXCEPT !.op = name, !.pc = at, !.error = error,
                       !.requests = Len(b.reqs),
                       !.serverId = IF HasCurrentUser THEN currentUser.Id ELSE NoId,
                       !.rest = IF HasCurrentUser THEN <<currentUser.ServerId>> ELSE <<>>]
     ELSE IF b.acted THEN SigningOut(m, name, b.user)
     ELSE [Idle EXCEPT !.op = name, !.pc = at]

\* The error as the effects of a step keep it
Told(m, error) == IF m.follow THEN error ELSE NoError

\* Lines 387-393 and 403-407: a response error is handed to the interceptor,
\* which rethrows it at once or calls logoutCurrentUser(true) and awaits it
interceptorCall(m) ==
  \E name \in Interceptors, error \in m.errors :
    LET b == logoutCurrentUserBegin(TRUE)
    IN IF interceptorApplies(name, error)
       THEN /\ CanSuspend(m)
            /\ users' = b.users
            /\ accessTokens' = b.accessTokens
            /\ tasks' = Suspend(tasks, Handling(m, name, error, b))
            /\ UNCHANGED <<loading, baseURL>>
            /\ UNCHANGED interceptors
            /\ ev' = Effect(m, [Quiet EXCEPT !.op = name, !.outcome = "pending",
                                             !.reqs = b.reqs, !.error = Told(m, error)])
            /\ outstanding' = Sent(m, b.reqs, name, FALSE)
            /\ UNCHANGED <<servers, currentServerIndex, currentUserIndex, rememberMe>>
       ELSE /\ UNCHANGED <<loading, baseURL>>
            /\ UNCHANGED interceptors
            /\ ev' = Effect(m, [Quiet EXCEPT !.op = name, !.outcome = "rethrown",
                                             !.error = Told(m, error)])
            /\ UNCHANGED <<authVars, tasks, outstanding>>

\* Line 209 inside the interceptor's call: logoutCurrentUser resumes after
\* `await this.logoutUser(...)` and resets the selector
interceptorLogoutResume(m) ==
  \E task \in Suspended :
    /\ task.op \in Interceptors
    /\ task.pc = "logoutUser"
    /\ currentUserIndex' = -1
    /\ tasks' = Suspend(Resumed(task), [task EXCEPT !.pc = "logoutCurrentUser"])
    /\ UNCHANGED <<loading, baseURL>>
    /\ UNCHANGED interceptors
    /\ ev' = Effect(m, [Quiet EXCEPT !.op = "logoutCurrentUser.resume",
                                     !.outcome = "resolved",
                                     !.id = task.serverId, !.arg = task.rest])
    /\ UNCHANGED <<servers, currentServerIndex, users, rememberMe, accessTokens, outstanding>>

\* An interceptor that does not await logoutCurrentUser(true)
interceptorResumeAtOnce(m) ==
  \E task \in Suspended :
    /\ task.op \in Interceptors
    /\ tasks' = Resumed(task)
    /\ UNCHANGED <<loading, baseURL>>
    /\ UNCHANGED interceptors
    /\ ev' = Effect(m, [Quiet EXCEPT !.op = task.op \o ".resume", !.outcome = "rethrown",
                                     !.notes = <<interceptorNote(task.op)>>,
                                     !.error = task.error,
                                     !.id = IF m.follow THEN task.serverId ELSE NoId,
                                     !.arg = IF m.follow THEN task.rest ELSE <<>>,
                                     !.requests = task.requests])
    /\ UNCHANGED <<authVars, outstanding>>

\* Lines 394-400 and 408-411: after `await auth.logoutCurrentUser(true)`,
\* the notification, and the error is thrown again
interceptorResume(m) ==
  \E task \in Suspended :
    /\ task.op \in Interceptors
    /\ task.pc = "logoutCurrentUser"
    /\ tasks' = Resumed(task)
    /\ UNCHANGED <<loading, baseURL>>
    /\ UNCHANGED interceptors
    /\ ev' = Effect(m, [Quiet EXCEPT !.op = task.op \o ".resume", !.outcome = "rethrown",
                                     !.notes = <<interceptorNote(task.op)>>,
                                     !.error = task.error,
                                     !.id = IF m.follow THEN task.serverId ELSE NoId,
                                     !.arg = IF m.follow THEN task.rest ELSE <<>>,
                                     !.requests = task.requests])
    /\ UNCHANGED <<authVars, outstanding>>

----------------------------------------------------------------------------
(* The server answers a logout() request *)

\* Lines 226-229: nothing awaits the promise of logout(), so its answer, a
\* response or an error, runs no code of the session
logoutAnswered(m) ==
  \E by \in {"running", "other"} :
    /\ outstanding[by] > 0
    /\ outstanding' = [outstanding EXCEPT ![by] = @ - 1]
    /\ UNCHANGED <<loading, baseURL>>
    /\ UNCHANGED interceptors
    /\ ev' = Effect(m, [Quiet EXCEPT !.op = "logout.answered"])
    /\ UNCHANGED <<authVars, tasks>>

----------------------------------------------------------------------------
(* The persisted state: useStorage('auth', defaults, localStorage, ...) *)

\* Lines 30-37 with rememberMe false
defaultsForgetting ==
  [servers |-> <<>>, currentServerIndex |-> -1, currentUserIndex |-> -1,
   users |-> <<>>, rememberMe |-> FALSE, accessTokens |-> [u \in UserIds |-> NoToken]]

\* Lines 30-37: the defaults, an object of six keys
defaults ==
  [servers |-> <<>>, currentServerIndex |-> -1, currentUserIndex |-> -1,
   users |-> <<>>, rememberMe |-> TRUE, accessTokens |-> [u \in UserIds |-> NoToken]]

\* state.value
stateValue ==
  [servers |-> servers, currentServerIndex |-> currentServerIndex,
   currentUserIndex |-> currentUserIndex, users |-> users,
   rememberMe |-> rememberMe, accessTokens |-> accessTokens]

\* The stored text, JSON: an object is the set of its members, and
\* accessTokens has a member for each user that has a token
Stringify(value) ==
  [k \in DOMAIN value |->
     IF k = "accessTokens"
     THEN {<<u, value[k][u]>> : u \in {x \in UserIds : value[k][x] # NoToken}}
     ELSE value[k]]

Parse(text) ==
  [k \in DOMAIN text |->
     IF k = "accessTokens"
     THEN [u \in UserIds |->
             IF \E member \in text[k] : member[1] = u
             THEN (CHOOSE member \in text[k] : member[1] = u)[2]
             ELSE NoToken]
     ELSE text[k]]

\* The stored text of another version of the client lacks the keys
\* `missing` and has the keys `unknown`
UnknownKeys == {"lastServer"}

StoredFrom(text, missing, unknown) ==
  [k \in (DOMAIN text \ missing) \cup unknown |->
     IF k \in DOMAIN text THEN text[k] ELSE <<>>]

\* The stored value merged over the defaults: the keys of the defaults,
\* each with the stored value when there is one
mergeExcludingUnknown(storageValue, defaultValues) ==
  [k \in DOMAIN defaultValues |->
     IF k \in DOMAIN storageValue THEN storageValue[k] ELSE defaultValues[k]]

\* Lines 28-43: the page is loaded again.  The state is what mergeDefaults
\* makes of the stored text; the calls that were in flight are gone with
\* the page.
load(m) ==
  \E missing \in SUBSET DOMAIN defaults, unknown \in SUBSET UnknownKeys :
    LET stored == StoredFrom(Stringify(stateValue), missing, unknown)
        value == mergeExcludingUnknown(Parse(stored), defaults)
    IN /\ Cardinality(missing) <= MaxMissing
       /\ servers' = value.servers
       /\ currentServerIndex' = value.currentServerIndex
       /\ currentUserIndex' = value.currentUserIndex
       /\ users' = value.users
       /\ rememberMe' = value.rememberMe
       /\ accessTokens' = value.accessTokens
       /\ tasks' = EmptyBag
       /\ loading' = NoneLoading
       /\ UNCHANGED interceptors
       /\ ev' = Effect(m, [Quiet EXCEPT !.op = "load", !.outcome = "resolved",
                                        !.arg = <<missing, unknown, DOMAIN value>>])
       /\ UNCHANGED <<outstanding, baseURL>>

----------------------------------------------------------------------------
(* The set and remove calls of RemotePluginAxios *)

\* The loading counter after the handlers of a request, or those of a
\* fulfilled response, have run for the url
RECURSIVE RunLoadHandlers(_, _, _)
RunLoadHandlers(handlers, count, url) ==
  IF handlers = <<>> THEN count
  ELSE RunLoadHandlers(Tail(handlers),
                       IF Head(handlers) = "startLoadInterceptor"
                       THEN startLoadInterceptor(count, url)
                       ELSE IF Head(handlers) = "stopLoadInterceptor"
                       THEN stopLoadInterceptor(count, url)
                       ELSE count,
                       url)

CanUse == Len(interceptors.response) < MaxHandlers

\* The set and remove calls change nothing but the interceptors
WrapperFrame(m, op) ==
  /\ ev' = Effect(m, [Quiet EXCEPT !.op = op, !.outcome = "resolved"])
  /\ UNCHANGED <<authVars, tasks, outstanding, loading, baseURL>>

\* Lines 436-443
setLoadInterceptor(m) ==
  /\ CanUse
  /\ interceptors' =
       [interceptors EXCEPT
          !.request = use(@, "startLoadInterceptor"),
          !._startLoadInterceptor = Len(interceptors.request),
          !.response = use(@, "stopLoadInterceptor"),
          !._stopLoadInterceptor = Len(interceptors.response)]
  /\ WrapperFrame(m, "setLoadInterceptor")

\* Lines 445-450
removeLoadInterceptor(m) ==
  /\ interceptors' =
       [interceptors EXCEPT
          !.request = eject(@, interceptors._startLoadInterceptor),
          !.response = eject(@, interceptors._stopLoadInterceptor),
          !._startLoadInterceptor = -1,
          !._stopLoadInterceptor = -1]
  /\ WrapperFrame(m, "removeLoadInterceptor")

\* Lines 460-463: setReactiveItemsInterceptor is commented out, the handle
\* is -1 always
removeReactiveItemsInterceptor(m) ==
  /\ interceptors' =
       [interceptors EXCEPT
          !.response = eject(@, interceptors._reactiveInterceptor),
          !._reactiveInterceptor = -1]
  /\ WrapperFrame(m, "removeReactiveItemsInterceptor")

\* Lines 465-470
setLogoutInterceptor(m) ==
  /\ CanUse
  /\ interceptors' =
       [interceptors EXCEPT
          !.response = use(@, "logoutInterceptor"),
          !._logoutInterceptor = Len(interceptors.response)]
  /\ WrapperFrame(m, "setLogoutInterceptor")

\* Lines 472-474: the handle is left as it is
removeLogoutInterceptor(m) ==
  /\ interceptors' =
       [interceptors EXCEPT !.response = eject(@, interceptors._logoutInterceptor)]
  /\ WrapperFrame(m, "removeLogoutInterceptor")

\* Lines 476-482
setServerUnreachableInterceptor(m) ==
  /\ CanUse
  /\ interceptors' =
       [interceptors EXCEPT
          !.response = use(@, "serverUnreachableInterceptor"),
          !._serverUnreachableInterceptor = Len(interceptors.response)]
  /\ WrapperFrame(m, "setServerUnreachableInterceptor")

\* Lines 484-488: the handle is left as it is
removeServerUnreachableInterceptor(m) ==
  /\ interceptors' =
       [interceptors EXCEPT
          !.response = eject(@, interceptors._serverUnreachableInterceptor)]
  /\ WrapperFrame(m, "removeServerUnreachableInterceptor")

----------------------------------------------------------------------------
(* Requests through the shared axios instance *)

\* Lines 437-439: startLoadInterceptor is a request interceptor, every
\* installed instance of it runs when a request is sent
requestSent(m) ==
  \E url \in RequestUrls :
    /\ BagCardinality(loading.requests) < MaxRequests
    /\ loading.count < MaxLoading
    /\ loading' = [count |-> RunLoadHandlers(interceptors.request, loading.count, url),
                   requests |-> loading.requests (+) SetToBag({url})]
    /\ UNCHANGED interceptors
    /\ ev' = Effect(m, [Quiet EXCEPT !.op = "request", !.outcome = "pending",
                                     !.arg = url])
    /\ UNCHANGED <<authVars, tasks, outstanding, baseURL>>

\* Lines 440-442: stopLoadInterceptor is an interceptor of the fulfilled
\* responses, every installed instance of it runs
responseFulfilled(m) ==
  \E url \in BagToSet(loading.requests) :
    /\ loading' = [count |-> RunLoadHandlers(interceptors.response, loading.count, url),
                   requests |-> loading.requests (-) SetToBag({url})]
    /\ UNCHANGED interceptors
    /\ ev' = Effect(m, [Quiet EXCEPT !.op = "response", !.outcome = "resolved",
                                     !.arg = url])
    /\ UNCHANGED <<authVars, tasks, outstanding, baseURL>>

\* Lines 440-442, 466-469 and 477-481: response.use(stopLoadInterceptor)
\* registers no interceptor of the rejected responses, so an error passes
\* stopLoadInterceptor by and is handed to logoutInterceptor and
\* serverUnreachableInterceptor (interceptorCall)
responseRejected(m) ==
  \E error \in m.errors :
    /\ error.url \in BagToSet(loading.requests)
    /\ loading' = [loading EXCEPT !.requests = @ (-) SetToBag({error.url})]
    /\ UNCHANGED interceptors
    /\ ev' = Effect(m, [Quiet EXCEPT !.op = "response.error", !.outcome = "rethrown",
                                     !.arg = error.url, !.error = error])
    /\ UNCHANGED <<authVars, tasks, outstanding, baseURL>>

----------------------------------------------------------------------------
(* The Pinia auth store (store/auth.ts) *)

\* The store keeps the same AuthState, in the same variables; its actions
\* are written authStore_<action>.  Of the axios instance the model keeps
\* defaults.baseURL, which decides the server a request is sent to; the
\* authorization header setAxiosHeader writes is read by no action.
Store == [Steady EXCEPT !.versions = {SupportedVersion}, !.remembers = {TRUE}]

\* setAxiosBaseUrl() with no argument (lines 207-213)
authStore_setAxiosBaseUrl(srvs, index) ==
  IF index >= 0 /\ index < Len(srvs) /\ srvs[index + 1].PublicAddress # <<>>
  THEN srvs[index + 1].PublicAddress
  ELSE Undefined

\* What array.splice(start, 1) returns: the removed elements
authStore_spliced(array, start) ==
  LET from == IF start < 0
              THEN (IF Len(array) + start < 0 THEN 0 ELSE Len(array) + start)
              ELSE (IF start > Len(array) THEN Len(array) ELSE start)
  IN IF from < Len(array) THEN <<array[from + 1]>> ELSE <<>>

\* Line 199: this.users.filter((user) => users.includes(user))
authStore_filterUsers(us, held) ==
  SelectSeq(us, LAMBDA user : \E i \in 1..Len(held) : held[i] = user)

\* Lines 197-202: the end of deleteServer, `held` being the users of the
\* server found at the start and `server` that server
authStore_deleteServerEnd(srvs, index, us, held, server) ==
  [baseURL |-> authStore_setAxiosBaseUrl(srvs, index),
   users |-> authStore_filterUsers(us, held),
   servers |-> authStore_spliced(srvs, FindIndex(srvs, LAMBDA s : s = server))]

\* Lines 157-167: logoutUser's finally block
authStore_logoutUserFinally(clearUser) ==
  IF clearUser /\ HasCurrentUser
  THEN [accessTokens |-> [accessTokens EXCEPT ![currentUser.Id] = NoToken],
        users |-> <<currentUser>>,
        currentUserIndex |-> -1]
  ELSE [accessTokens |-> accessTokens, users |-> users,
        currentUserIndex |-> currentUserIndex]

\* Lines 123-139: the message loginUser's catch block notifies
authStore_loginErrorNotes(error) ==
  IF ~error.hasResponse
  THEN <<IF error.message # "" THEN error.message ELSE "login.serverNotFound">>
  ELSE IF error.status = 500 \/ error.status = 401 THEN <<"incorrectUsernameOrPassword">>
  ELSE IF error.status = 400 THEN <<"badRequest">>
  ELSE <<"unexpectedError">>

\* Lines 43-55: the address loses a trailing slash, becomes the base URL, and
\* the probe is issued
authStore_connectServerCall(m) ==
  \E serverUrl \in m.urls :
    /\ CanSuspend(m)
    /\ baseURL' = ReplaceTrailingSlash(serverUrl)
    /\ tasks' = Suspend(tasks, [Idle EXCEPT !.op = "authStore.connectServer",
                                            !.pc = "getPublicSystemInfo",
                                            !.serverUrl = ReplaceTrailingSlash(serverUrl),
                                            !.requests = 1])
    /\ UNCHANGED interceptors
    /\ ev' = Effect(m, [Quiet EXCEPT !.op = "authStore.connectServer",
                                     !.outcome = "pending",
                                     !.reqs = <<"getPublicSystemInfo">>,
                                     !.requests = 1, !.arg = serverUrl])
    /\ UNCHANGED <<authVars, outstanding, loading>>

\* Lines 58-61: the probe failed
authStore_connectServerCatch(m) ==
  \E task \in Suspended :
    /\ task.op = "authStore.connectServer"
    /\ tasks' = Resumed(task)
    /\ UNCHANGED interceptors
    /\ ev' = Effect(m, [Quiet EXCEPT !.op = "authStore.connectServer.catch",
                                     !.outcome = "Error",
                                     !.notes = <<"login.serverNotFound">>,
                                     !.arg = task.serverUrl,
                                     !.requests = task.requests])
    /\ UNCHANGED <<authVars, outstanding, loading, baseURL>>

\* Lines 54-57 and 63-85: the probe answered
authStore_connectServerResume(m) ==
  \E task \in Suspended, id \in m.ids, version \in m.versions, wizardCompleted \in BOOLEAN :
    LET serverUrl == task.serverUrl
        data == [Id |-> id, PublicAddress |-> serverUrl]
        outcome == connectServerOutcome(version, wizardCompleted)
        pushed == IF getServerById(servers, id) = -1 THEN Append(servers, data) ELSE servers
        done == [Quiet EXCEPT !.op = "authStore.connectServer.resume",
                              !.outcome = "resolved",
                              !.arg = serverUrl, !.id = id, !.version = version,
                              !.wizardCompleted = wizardCompleted,
                              !.requests = task.requests]
    IN /\ task.op = "authStore.connectServer"
       /\ id \in Answering(m, serverUrl)
       /\ tasks' = Resumed(task)
       /\ IF outcome = "stored"
          THEN /\ Len(pushed) <= MaxServers
               /\ servers' = pushed
               /\ currentServerIndex' = findByAddress(pushed, serverUrl)
               /\ UNCHANGED interceptors
               /\ ev' = Effect(m, done)
          ELSE /\ UNCHANGED interceptors
               /\ ev' = Effect(m, IF outcome = "wizard"
                                  THEN [done EXCEPT !.nav = "/wizard"]
                                  ELSE [done EXCEPT !.outcome = outcome,
                                                    !.notes = <<"login.serverVersionTooLow">>])
               /\ UNCHANGED <<servers, currentServerIndex>>
       /\ UNCHANGED <<currentUserIndex, users, rememberMe, accessTokens, outstanding,
                      loading, baseURL>>

\* Lines 94-107: the current server is required; the request goes to the
\* base URL of the instance
authStore_loginUserCall(m) ==
  \E remember \in m.remembers :
    IF ~HasCurrentServer
    THEN /\ UNCHANGED interceptors
         /\ ev' = Effect(m, [Quiet EXCEPT !.op = "authStore.loginUser",
                                          !.outcome = "There is no server in use"])
         /\ UNCHANGED <<authVars, tasks, outstanding, loading, baseURL>>
    ELSE /\ CanSuspend(m)
         /\ tasks' = Suspend(tasks, [Idle EXCEPT !.op = "authStore.loginUser",
                                                 !.pc = "authenticateUserByName",
                                                 !.rememberMe = remember,
                                                 !.serverUrl = baseURL,
                                                 !.requests = 1])
         /\ UNCHANGED interceptors
         /\ ev' = Effect(m, [Quiet EXCEPT !.op = "authStore.loginUser",
                                          !.outcome = "pending",
                                          !.reqs = <<"authenticateUserByName">>,
                                          !.requests = 1])
         /\ UNCHANGED <<authVars, outstanding, loading, baseURL>>

\* Lines 100-121: the server at the base URL answered; `complete` is whether
\* the response carries both User.Id and AccessToken
authStore_loginUserResume(m) ==
  \E task \in Suspended, id \in UserIds, serverId \in m.ids, token \in Tokens,
     complete \in BOOLEAN :
    LET user == [Id |-> id, ServerId |-> serverId]
    IN /\ task.op = "authStore.loginUser"
       /\ task.serverUrl # Undefined
       /\ serverId \in Answering(m, task.serverUrl)
       /\ rememberMe' = task.rememberMe
       /\ IF complete
          THEN /\ Len(users) < MaxUsers
               /\ accessTokens' = [accessTokens EXCEPT ![id] = token]
               /\ users' = Append(users, user)
               /\ currentUserIndex' = Len(users)
          ELSE UNCHANGED <<accessTokens, users, currentUserIndex>>
       /\ tasks' = Resumed(task)
       /\ UNCHANGED interceptors
       /\ ev' = Effect(m, [Quiet EXCEPT !.op = "authStore.loginUser.resume",
                                        !.outcome = "resolved",
                                        !.arg = <<task.rememberMe>>,
                                        !.id = IF complete THEN id ELSE NoId,
                                        !.token = IF complete THEN token ELSE NoToken,
                                        !.requests = task.requests])
       /\ UNCHANGED <<servers, currentServerIndex, outstanding, loading, baseURL>>

\* Lines 122-144: the request failed; the error is notified and thrown again
authStore_loginUserCatch(m) ==
  \E task \in Suspended, error \in LoginErrors :
    /\ task.op = "authStore.loginUser"
    /\ tasks' = Resumed(task)
    /\ UNCHANGED interceptors
    /\ ev' = Effect(m, [Quiet EXCEPT !.op = "authStore.loginUser.catch",
                                     !.outcome = "Error",
                                     !.notes = authStore_loginErrorNotes(error),
                                     !.requests = task.requests])
    /\ UNCHANGED <<authVars, outstanding, loading, baseURL>>

\* Lines 152-168, called by a component: with skipRequest nothing is awaited
\* and the finally block runs at once
authStore_logoutUserCall(m) ==
  \E clearUser \in BOOLEAN, skipRequest \in BOOLEAN :
    LET f == authStore_logoutUserFinally(clearUser)
        e == [Quiet EXCEPT !.op = "authStore.logoutUser", !.arg = <<clearUser, skipRequest>>,
                           !.id = IF HasCurrentUser THEN currentUser.Id ELSE NoId]
    IN IF skipRequest
       THEN /\ accessTokens' = f.accessTokens
            /\ users' = f.users
            /\ currentUserIndex' = f.currentUserIndex
            /\ UNCHANGED interceptors
            /\ ev' = Effect(m, [e EXCEPT !.outcome = "resolved"])
            /\ UNCHANGED <<servers, currentServerIndex, rememberMe, tasks, outstanding,
                           loading, baseURL>>
       ELSE /\ CanSuspend(m)
            /\ tasks' = Suspend(tasks, [Idle EXCEPT !.op = "authStore.logoutUser",
                                                    !.pc = "reportSessionEnded",
                                                    !.removed = clearUser,
                                                    !.requests = 1])
            /\ UNCHANGED interceptors
            /\ ev' = Effect(m, [e EXCEPT !.outcome = "pending",
                                         !.reqs = <<"reportSessionEnded">>,
                                         !.requests = 1])
            /\ UNCHANGED <<authVars, outstanding, loading, baseURL>>

\* Lines 155-167: the request was answered or failed (`failed`); the finally
\* block runs in both cases, and a failure is thrown on after it.  The
\* task's `removed` is the call's clearUser.
authStore_logoutUserResume(m) ==
  \E task \in Suspended, failed \in BOOLEAN :
    LET f == authStore_logoutUserFinally(task.removed)
    IN /\ task.op = "authStore.logoutUser"
       /\ accessTokens' = f.accessTokens
       /\ users' = f.users
       /\ currentUserIndex' = f.currentUserIndex
       /\ tasks' = Resumed(task)
       /\ UNCHANGED interceptors
       /\ ev' = Effect(m, [Quiet EXCEPT !.op = "authStore.logoutUser.resume",
                                        !.outcome = IF failed THEN "Error" ELSE "resolved",
                                        !.arg = <<task.removed, FALSE>>,
                                        !.id = IF HasCurrentUser THEN currentUser.Id ELSE NoId,
                                        !.requests = task.requests])
       /\ UNCHANGED <<servers, currentServerIndex, rememberMe, outstanding, loading,
                      baseURL>>

\* Lines 174-193, and 197-202 when the server has no user: the server is
\* found by its address, its users are held, and the first of them is signed
\* out with logoutUser(false), which awaits reportSessionEnded.  The task
\* keeps the server in `serverId` and `serverUrl`, the held users in `rest`
\* and the number of users already signed out in `after`.
authStore_deleteServerCall(m) ==
  \E serverUrl \in Addresses :
    LET at == findByAddress(servers, serverUrl)
        server == servers[at + 1]
        held == getUsersFromServer(users, server.Id)
        end == authStore_deleteServerEnd(servers, currentServerIndex, users, held, server)
        e == [Quiet EXCEPT !.op = "authStore.deleteServer", !.arg = serverUrl]
    IN IF at = -1
       THEN /\ UNCHANGED interceptors
            /\ ev' = Effect(m, [e EXCEPT !.outcome = "This server doesn't exist in the store"])
            /\ UNCHANGED <<authVars, tasks, outstanding, loading, baseURL>>
       ELSE IF held = <<>>
       THEN /\ baseURL' = end.baseURL
            /\ users' = end.users
            /\ servers' = end.servers
            /\ UNCHANGED interceptors
            /\ ev' = Effect(m, [e EXCEPT !.outcome = "resolved", !.id = server.Id])
            /\ UNCHANGED <<currentServerIndex, currentUserIndex, rememberMe, accessTokens,
                           tasks, outstanding, loading>>
       ELSE /\ CanSuspend(m)
            /\ baseURL' = server.PublicAddress
            /\ tasks' = Suspend(tasks, [Idle EXCEPT !.op = "authStore.deleteServer",
                                                    !.pc = "reportSessionEnded",
                                                    !.serverUrl = server.PublicAddress,
                                                    !.serverId = server.Id,
                                                    !.rest = held,
                                                    !.requests = 1])
            /\ UNCHANGED interceptors
            /\ ev' = Effect(m, [e EXCEPT !.outcome = "pending", !.id = server.Id,
                                         !.reqs = <<"reportSessionEnded">>,
                                         !.requests = 1])
            /\ UNCHANGED <<authVars, outstanding, loading>>

\* Lines 193-202: reportSessionEnded was answered, logoutUser(false) returns
\* without a change, the user's token is deleted; the next user is signed
\* out, or after the last one the users are filtered and the servers
\* spliced
authStore_deleteServerResume(m) ==
  \E task \in Suspended :
    LET user == task.rest[task.after + 1]
        toks == [accessTokens EXCEPT ![user.Id] = NoToken]
        server == [Id |-> task.serverId, PublicAddress |-> task.serverUrl]
        end == authStore_deleteServerEnd(servers, currentServerIndex, users, task.rest, server)
        e == [Quiet EXCEPT !.op = "authStore.deleteServer.resume",
                           !.arg = task.serverUrl, !.id = task.serverId]
    IN /\ task.op = "authStore.deleteServer"
       /\ accessTokens' = toks
       /\ IF task.after + 1 < Len(task.rest)
          THEN /\ tasks' = Suspend(Resumed(task), [task EXCEPT !.after = @ + 1,
                                                               !.requests = @ + 1])
               /\ UNCHANGED interceptors
               /\ ev' = Effect(m, [e EXCEPT !.outcome = "pending",
                                            !.reqs = <<"reportSessionEnded">>,
                                            !.requests = task.requests + 1])
               /\ UNCHANGED <<servers, users, baseURL>>
          ELSE /\ tasks' = Resumed(task)
               /\ baseURL' = end.baseURL
               /\ users' = end.users
               /\ servers' = end.servers
               /\ UNCHANGED interceptors
               /\ ev' = Effect(m, [e EXCEPT !.outcome = "resolved",
                                            !.requests = task.requests])
       /\ UNCHANGED <<currentServerIndex, currentUserIndex, rememberMe, outstanding, loading>>

\* Lines 155-157 and 193: reportSessionEnded failed; logoutUser(false) throws
\* it on after a finally block that changes nothing, and deleteServer ends
\* there
authStore_deleteServerCatch(m) ==
  \E task \in Suspended :
    /\ task.op = "authStore.deleteServer"
    /\ tasks' = Resumed(task)
    /\ UNCHANGED interceptors
    /\ ev' = Effect(m, [Quiet EXCEPT !.op = "authStore.deleteServer.catch",
                                     !.outcome = "Error",
                                     !.arg = task.serverUrl, !.id = task.serverId,
                                     !.requests = task.requests])
    /\ UNCHANGED <<authVars, outstanding, loading, baseURL>>

----------------------------------------------------------------------------
(* The specifications *)

Next(m) ==
  \/ connectServerCall(m)
  \/ connectServerCatch(m)
  \/ connectServerResume(m)
  \/ loginUserCall(m)
  \/ loginUserResume(m)
  \/ loginUserCatch(m)
  \/ logoutUser(m)
  \/ logoutCurrentUserCall(m)
  \/ logoutCurrentUserResume(m)
  \/ deleteServerCall(m)
  \/ deleteServerResume(m)
  \/ interceptorCall(m)
  \/ interceptorLogoutResume(m)
  \/ interceptorResume(m)

\* One call at a time, every effect observed
Spec == Init /\ [][Next(Sequential)]_vars

\* Calls overlapping
SpecRace == Init /\ [][Next(Racing)]_vars

\* One call at a time, every address keeping its server
SpecSteady == Init /\ [][Next(Steady)]_vars

\* One call at a time, the logout() requests followed until they are answered
NextSignOut ==
  \/ Next(SignOut)
  \/ logoutAnswered(SignOut)

SpecSignOut == Init /\ [][NextSignOut]_vars

\* connectServer and loginUser, one call at a time, and the page loaded
\* again at any moment
NextLoad ==
  \/ connectServerCall(Reloading)
  \/ connectServerCatch(Reloading)
  \/ connectServerResume(Reloading)
  \/ loginUserCall(Reloading)
  \/ loginUserResume(Reloading)
  \/ loginUserCatch(Reloading)
  \/ deleteServerResume(Reloading)
  \/ load(Reloading)

SpecLoad == Init /\ [][NextLoad]_vars

\* One call at a time, the interceptors handed every error of ResponseErrors
SpecHooks == Init /\ [][Next(Hooks)]_vars

\* connectServer and loginUser alone, every address keeping its server
NextConnect ==
  \/ connectServerCall(Steady)
  \/ connectServerCatch(Steady)
  \/ connectServerResume(Steady)
  \/ loginUserCall(Steady)
  \/ loginUserResume(Steady)
  \/ loginUserCatch(Steady)
  \/ deleteServerResume(Steady)

SpecConnect == Init /\ [][NextConnect]_vars

\* connectServer and loginUser alone, their calls overlapping
NextOverlap ==
  \/ connectServerCall(Overlapping)
  \/ connectServerCatch(Overlapping)
  \/ connectServerResume(Overlapping)
  \/ loginUserCall(Overlapping)
  \/ loginUserResume(Overlapping)
  \/ loginUserCatch(Overlapping)
  \/ deleteServerResume(Overlapping)

SpecOverlap == Init /\ [][NextOverlap]_vars

\* loginUser and logoutCurrentUser, their calls overlapping
NextSignIn ==
  \/ connectServerCall(Overlapping)
  \/ connectServerCatch(Overlapping)
  \/ connectServerResume(Overlapping)
  \/ loginUserCall(Overlapping)
  \/ loginUserResume(Overlapping)
  \/ loginUserCatch(Overlapping)
  \/ logoutCurrentUserCall(Overlapping)
  \/ logoutCurrentUserResume(Overlapping)
  \/ deleteServerResume(Overlapping)

SpecSignIn == Init /\ [][NextSignIn]_vars

\* connectServer alone, its calls overlapping, the server that answers at
\* an address changing
NextMoving ==
  \/ connectServerCall(Moving)
  \/ connectServerCatch(Moving)
  \/ connectServerResume(Moving)

SpecMoving == Init /\ [][NextMoving]_vars

\* connectServer alone, called with every address up to MaxUrlLen characters
NextUrl ==
  \/ connectServerCall(EveryUrl)
  \/ connectServerCatch(EveryUrl)
  \/ connectServerResume(EveryUrl)

SpecUrl == Init /\ [][NextUrl]_vars

\* connectServer alone, answered with every version up to MaxVerLen characters
NextVersion ==
  \/ connectServerCall(EveryVersion)
  \/ connectServerCatch(EveryVersion)
  \/ connectServerResume(EveryVersion)

SpecVersion == Init /\ [][NextVersion]_vars

\* The requests of the shared instance alone
NextLoading ==
  \/ requestSent(Hooks)
  \/ responseFulfilled(Hooks)
  \/ responseRejected(Hooks)

SpecLoading == Init /\ [][NextLoading]_vars


\* The Pinia store, one call at a time, every address keeping its server
NextStore ==
  \/ authStore_connectServerCall(Store)
  \/ authStore_connectServerCatch(Store)
  \/ authStore_connectServerResume(Store)
  \/ authStore_loginUserCall(Store)
  \/ authStore_loginUserResume(Store)
  \/ authStore_loginUserCatch(Store)
  \/ authStore_logoutUserCall(Store)
  \/ authStore_logoutUserResume(Store)
  \/ authStore_deleteServerCall(Store)
  \/ authStore_deleteServerResume(Store)
  \/ authStore_deleteServerCatch(Store)

SpecStore == Init /\ [][NextStore]_vars

\* The Pinia store's connectServer when the server that answers at an
\* address may be any server
StoreMoving == [Store EXCEPT !.steady = FALSE]

NextStoreConnect ==
  \/ authStore_connectServerCall(StoreMoving)
  \/ authStore_connectServerCatch(StoreMoving)
  \/ authStore_connectServerResume(StoreMoving)

SpecStoreConnect == Init /\ [][NextStoreConnect]_vars

\* The set and remove calls of the shared instance, and requests through it
NextWrapper ==
  \/ setLoadInterceptor(Hooks)
  \/ removeLoadInterceptor(Hooks)
  \/ removeReactiveItemsInterceptor(Hooks)
  \/ setLogoutInterceptor(Hooks)
  \/ removeLogoutInterceptor(Hooks)
  \/ setServerUnreachableInterceptor(Hooks)
  \/ removeServerUnreachableInterceptor(Hooks)
  \/ requestSent(Hooks)
  \/ responseFulfilled(Hooks)
  \/ responseRejected(Hooks)

SpecWrapper == Init /\ [][NextWrapper]_vars

----------------------------------------------------------------------------
(* The token map *)

\* C1: in every reachable state, whatever the interleaving of the operations
\* and of the interceptors, every key of accessTokens is the Id of a user
\* that is in users.
TokenKeysAreStoredUsers ==
  \A id \in UserIds : accessTokens[id] # NoToken => id \in IdsOf(users)

\* A deleteServer has signed a user out and is suspended, and another user's
\* token is in the map
TokenKeptWhileServerIsDeleted ==
  \E task \in Suspended :
    /\ task.op = "deleteServer"
    /\ \E id \in UserIds : accessTokens[id] # NoToken

----------------------------------------------------------------------------
(* The selectors *)

\* C2: in every reachable state currentServerIndex is -1 or a position of
\* servers, and currentUserIndex is -1 or a position of users.
SelectorsAreValid ==
  /\ currentServerIndex = -1 \/ HasCurrentServer
  /\ currentUserIndex = -1 \/ HasCurrentUser

\* C3: a logoutUser of a user that is not the current one leaves the current
\* user the record it was, and a deleteServer that removes a server that is
\* not the current one leaves the current server the record it was.
RemovalKeepsCurrent ==
  [][/\ (ev'.op = "logoutUser" /\ HasCurrentUser /\ ev'.arg # <<currentUserIndex>>)
          => (HasCurrentUser' /\ currentUser' = currentUser)
     /\ (/\ ev'.op = "deleteServer"
         /\ ev'.outcome = "resolved"
         /\ HasCurrentServer
         /\ findByAddress(servers, ev'.arg) # currentServerIndex)
          => (HasCurrentServer' /\ currentServer' = currentServer)]_vars

\* C4: no two positions of servers hold the same Id, a connectServer for a
\* registered Id merging into the record that is there.
ServerIdsAreUnique ==
  \A i, j \in 1..Len(servers) : servers[i].Id = servers[j].Id => i = j

\* A connectServer that stored its server has returned and started no
\* deleteServer, or the deleteServer it started has returned
ConnectFinished ==
  \/ ev.op = "connectServer.resume" /\ ev.outcome = "resolved" /\ ev.nav = ""
       /\ tasks = EmptyBag
  \/ ev.op = "deleteServer.resume" /\ ev.outcome = "resolved" /\ ev.id # NoId

\* C5: once a connectServer that stored its server has finished, and the
\* deleteServer it started has finished too, the current server is the record
\* with the normalized address and the Id the server reported.
ConnectSelectsReportedServer ==
  ConnectFinished =>
    /\ HasCurrentServer
    /\ currentServer.PublicAddress = ev.arg
    /\ currentServer.Id = ev.id

----------------------------------------------------------------------------
(* The version gate *)

\* The integer a component of a version is read as: the digits it starts
\* with after white space and a sign, hexadecimal digits after 0x; none when
\* the component is missing or starts with no digit
RefSpaces(s) == Cardinality({k \in 1..Len(s) : \A i \in 1..k : s[i] = " "})
RefSigned(s) == s # <<>> /\ s[1] \in {"-", "+"}
RefIsHex(s) == Len(s) >= 2 /\ s[1] = "0" /\ s[2] \in {"x", "X"}
RefDigits(s, digits) == Cardinality({k \in 1..Len(s) : \A i \in 1..k : s[i] \in digits})

RECURSIVE RefValue(_, _, _)
RefValue(s, k, radix) ==
  IF k = 0 THEN 0 ELSE RefValue(s, k - 1, radix) * radix + DigitValue(s[k])

RefIntegers(component) ==
  IF component = Undefined THEN {}
  ELSE LET unspaced == SubSeq(component, RefSpaces(component) + 1, Len(component))
           unsigned == IF RefSigned(unspaced) THEN Tail(unspaced) ELSE unspaced
           body == IF RefIsHex(unsigned) THEN SubSeq(unsigned, 3, Len(unsigned)) ELSE unsigned
           radix == IF RefIsHex(unsigned) THEN 16 ELSE 10
           k == RefDigits(body, IF radix = 16 THEN HexChars ELSE DigitChars)
           value == RefValue(body, k, radix)
       IN IF k = 0 THEN {}
          ELSE {IF RefSigned(unspaced) /\ unspaced[1] = "-" THEN 0 - value ELSE value}

RefDots(version) == {i \in 1..Len(version) : version[i] = "."}
RefDot(version, n) ==
  IF Cardinality(RefDots(version)) >= n
  THEN CHOOSE i \in RefDots(version) : Cardinality({j \in RefDots(version) : j < i}) = n - 1
  ELSE Len(version) + 1

RefMajors(version) ==
  IF version = Undefined THEN {}
  ELSE RefIntegers(SubSeq(version, 1, RefDot(version, 1) - 1))
RefMinors(version) ==
  IF version = Undefined \/ RefDots(version) = {} THEN {}
  ELSE RefIntegers(SubSeq(version, RefDot(version, 1) + 1, RefDot(version, 2) - 1))

VersionTooLow == "Server version is too low"

\* major > 10 or (major = 10 and minor >= 7), of the integers the components read as
RefAccepts(version) ==
  \E major \in RefMajors(version) :
    major > 10 \/ (major = 10 /\ \E minor \in RefMinors(version) : minor >= 7)

\* C6: connectServer accepts the probed server exactly when the first
\* component of its version reads as an integer above 10, or as 10 with the
\* second component reading as an integer of at least 7; with any other
\* version, or none, it fails with the version error.
VersionGate ==
  ev.op = "connectServer.resume" =>
    (ev.outcome # VersionTooLow <=> RefAccepts(ev.version))

\* C6 as written: the server is accepted exactly when both components read
\* as integers and major > 10 or (major = 10 and minor >= 7).
VersionGateOfBothComponents ==
  ev.op = "connectServer.resume" =>
    (ev.outcome # VersionTooLow
       <=> \E major \in RefMajors(ev.version), minor \in RefMinors(ev.version) :
             major > 10 \/ (major = 10 /\ minor >= 7))

\* The server of version 10.7.0 has been stored
Version1070Stored ==
  /\ ev.op = "connectServer.resume"
  /\ ev.version = <<"1", "0", ".", "7", ".", "0">>
  /\ ev.outcome = "resolved"
  /\ servers # <<>>

----------------------------------------------------------------------------
(* connectServer's failures, requests and wizard *)

\* C7: a connectServer whose probe failed, or whose server has an
\* unsupported version, throws, and no step of it changes servers, users,
\* accessTokens, currentServerIndex or currentUserIndex.
FailedConnectChangesNothing ==
  [][/\ ev'.op = "connectServer" => UNCHANGED authVars
     /\ (\/ ev'.op = "connectServer.catch"
         \/ ev'.op = "connectServer.resume" /\ ~RefAccepts(ev'.version))
          => /\ UNCHANGED authVars
             /\ ev'.outcome \in {"Error", VersionTooLow}]_vars

\* A connectServer has failed on the version while a server and a user are stored
ConnectFailedOnVersion ==
  /\ ev.op = "connectServer.resume"
  /\ ev.outcome = VersionTooLow
  /\ servers # <<>>
  /\ users # <<>>

FirstRequests == {"getPublicSystemInfo", "authenticateUserByName"}

\* C8: a connectServer issues one getPublicSystemInfo request and a
\* loginUser at most one authenticateUserByName request, neither issues
\* another when the request has failed, and a failed probe gives one
\* notification and the error.
OneRequestPerCall ==
  /\ \A task \in Suspended :
       task.op \in {"connectServer", "loginUser"} => task.requests = 1
  /\ ev.op = "connectServer" => ev.reqs = <<"getPublicSystemInfo">>
  /\ ev.op = "loginUser" => ev.reqs \in {<<>>, <<"authenticateUserByName">>}
  /\ ev.op \in {"connectServer.catch", "connectServer.resume",
                "loginUser.catch", "loginUser.resume"}
       => /\ ev.requests = 1
          /\ \A i \in 1..Len(ev.reqs) : ev.reqs[i] \notin FirstRequests
  /\ ev.op = "connectServer.catch"
       => ev.notes = <<"login.serverNotFound">> /\ ev.outcome = "Error"

\* A probe has failed while a server and a user are stored
ProbeFailed ==
  /\ ev.op = "connectServer.catch"
  /\ ev.requests = 1
  /\ servers # <<>>
  /\ users # <<>>

\* C9: with a supported version and the wizard not completed, connectServer
\* navigates to /wizard, returns, and leaves servers and currentServerIndex as
\* they were; with an unsupported version it fails with the version error and
\* does not navigate, whatever the wizard flag.
WizardAfterVersion ==
  [][ev'.op = "connectServer.resume" =>
       /\ (RefAccepts(ev'.version) /\ ~ev'.wizardCompleted)
            => /\ ev'.nav = "/wizard"
               /\ ev'.outcome = "resolved"
               /\ servers' = servers
               /\ currentServerIndex' = currentServerIndex
       /\ ~RefAccepts(ev'.version)
            => /\ ev'.outcome = VersionTooLow
               /\ ev'.nav = ""]_vars

\* connectServer has navigated to the wizard while a server is stored
WizardOpened ==
  /\ ev.op = "connectServer.resume"
  /\ ev.nav = "/wizard"
  /\ ~ev.wizardCompleted
  /\ servers # <<>>

----------------------------------------------------------------------------
(* The address *)

\* C10: the address connectServer probes is its argument with the white
\* space around it trimmed and then one trailing slash removed.
ProbedAddressIsTrimmedThenStripped ==
  ev.op = "connectServer" =>
    \A task \in Suspended : task.serverUrl = ReplaceTrailingSlash(Trim(ev.arg))

----------------------------------------------------------------------------
(* loginUser *)

NoServerInUse == "There is no server in use"

\* C11: a loginUser called when currentServerIndex is at no server throws
\* the no-server error, sends no request and changes nothing of the state.
LoginNeedsCurrentServer ==
  [][(ev'.op = "loginUser" /\ ~HasCurrentServer)
       => /\ ev'.outcome = NoServerInUse
          /\ ev'.reqs = <<>>
          /\ ev'.requests = 0
          /\ UNCHANGED <<authVars, tasks>>]_vars

\* loginUser has thrown with currentServerIndex past the end of servers and
\* a user stored
LoginThrewWithoutServer ==
  /\ ev.op = "loginUser"
  /\ ev.outcome = NoServerInUse
  /\ currentServerIndex # -1
  /\ users # <<>>

CountOf(array, id) == Cardinality({i \in 1..Len(array) : array[i].Id = id})
TokenKeys(toks) == {id \in UserIds : toks[id] # NoToken}

\* C12: when loginUser returns after a response with user U and token T, U
\* not stored before, accessTokens has one more key and maps U to T, users
\* has one more record, currentUserIndex is the position of the record of U,
\* and rememberMe is the argument of the call.
LoginStoresUser ==
  [][(ev'.op = "loginUser.resume" /\ ev'.id # NoId /\ ev'.id \notin IdsOf(users))
       => /\ Cardinality(TokenKeys(accessTokens')) = Cardinality(TokenKeys(accessTokens)) + 1
          /\ accessTokens'[ev'.id] = ev'.token
          /\ ev'.token # NoToken
          /\ Len(users') = Len(users) + 1
          /\ HasCurrentUser'
          /\ currentUser'.Id = ev'.id
          /\ CountOf(users', ev'.id) = 1
          /\ rememberMe' = ev'.arg[1]
          /\ ev'.outcome = "resolved"]_vars

\* A second user has signed in with rememberMe false
SecondUserSignedIn ==
  /\ ev.op = "loginUser.resume"
  /\ ev.id # NoId
  /\ Len(users) = 2
  /\ CountOf(users, ev.id) = 1
  /\ ~rememberMe

\* C13: when the authenticate request fails, loginUser returns without
\* throwing, and no step of the call changes users, accessTokens,
\* currentUserIndex or rememberMe.
FailedLoginChangesNothing ==
  [][/\ ev'.op = "loginUser" => UNCHANGED authVars
     /\ ev'.op = "loginUser.catch"
          => /\ ev'.outcome = "resolved"
             /\ UNCHANGED <<users, accessTokens, currentUserIndex, rememberMe>>]_vars

\* A login has failed while a user is stored
LoginFailed ==
  /\ ev.op = "loginUser.catch"
  /\ ev.outcome = "resolved"
  /\ users # <<>>

ClassifiedMessages ==
  {"Network Error", "login.serverNotFound", "incorrectUsernameOrPassword", "badRequest",
   "unexpectedError"}

\* C14: for every failed authenticate request loginUser emits exactly one
\* notification, with one of the messages the failure's shape selects.
FailedLoginNotifiesOnce ==
  ev.op = "loginUser.catch" => (Len(ev.notes) = 1 /\ ev.notes[1] \in ClassifiedMessages)

----------------------------------------------------------------------------
(* logoutUser, logoutCurrentUser *)

\* C15: logoutUser(user, server) removes the record of `user` from users and
\* deletes the token of the user's Id, in the stretch that sends the request.
LogoutUserRemovesItsRecord ==
  [][ev'.op = "logoutUser"
       => /\ users' = Splice(users, ev'.arg[1])
          /\ accessTokens'[users[ev'.arg[1] + 1].Id] = NoToken]_vars

\* C16: a logoutCurrentUser called without a current user or without a
\* current server sends no request and changes nothing of the state.
LogoutCurrentNeedsUserAndServer ==
  [][(ev'.op = "logoutCurrentUser" /\ ~(HasCurrentUser /\ HasCurrentServer))
       => /\ ev'.reqs = <<>>
          /\ ev'.outcome = "resolved"
          /\ UNCHANGED <<authVars, tasks, outstanding>>]_vars

\* logoutCurrentUser has returned at once with a user stored and current and
\* no server current
LogoutCurrentDidNothing ==
  /\ ev.op = "logoutCurrentUser"
  /\ ev.outcome = "resolved"
  /\ HasCurrentUser
  /\ ~HasCurrentServer

\* C17: when a logoutCurrentUser called with a current user and a current
\* server has returned, currentUserIndex is -1, the record that was the
\* current user is not in users, and its Id has no token.
LogoutCurrentRemovesCurrentUser ==
  (ev.op = "logoutCurrentUser.resume" /\ ev.id # NoId)
    => /\ currentUserIndex = -1
       /\ accessTokens[ev.id] = NoToken
       /\ \A i \in 1..Len(users) : users[i] # [Id |-> ev.id, ServerId |-> ev.arg[1]]

----------------------------------------------------------------------------
(* deleteServer *)

ServerUnknown == "This server doesn't exist in the store"

\* C18: a deleteServer called with an address no stored server has throws
\* the unknown-server error, sends no request and changes nothing of the state.
DeleteNeedsStoredServer ==
  [][(ev'.op = "deleteServer" /\ findByAddress(servers, ev'.arg) = -1)
       => /\ ev'.outcome = ServerUnknown
          /\ ev'.reqs = <<>>
          /\ UNCHANGED <<authVars, tasks, outstanding>>]_vars

\* deleteServer has thrown while a server and a user are stored
DeleteThrewOnUnknownAddress ==
  /\ ev.op = "deleteServer"
  /\ ev.outcome = ServerUnknown
  /\ servers # <<>>
  /\ users # <<>>

\* C19: when a deleteServer a caller started returns after signing users
\* out, the server it deleted is not in servers, every other server still is,
\* and no user of the deleted server is in users.
DeleteRemovesItsServerOnly ==
  [][(ev'.op = "deleteServer.resume" /\ ev'.outcome = "resolved" /\ ev'.id = NoId)
       => \A task \in Suspended :
            task.op = "deleteServer"
              => /\ task.serverId \notin IdsOf(servers')
                 /\ IdsOf(servers) \ {task.serverId} \subseteq IdsOf(servers')
                 /\ \A i \in 1..Len(users') : users'[i].ServerId # task.serverId]_vars

\* C20: while a deleteServer signs the users of a server out, at most one of
\* the logout() requests it has sent is unanswered.
DeleteSignsOutOneAtATime == outstanding.running <= 1

----------------------------------------------------------------------------
(* The loading counter *)

\* C21: once every request sent through the shared instance has completed,
\* with a response or with an error, the loading counter is 0 again
LoadingBalanced == loading.requests = EmptyBag => loading.count = 0

----------------------------------------------------------------------------
(* The forced sign-out on 401 and on an unreachable server *)

\* The error's request is the sign-out request
OfSignOutEndpoint(error) == error.url # Undefined /\ Includes(error.url, SessionsLogout)

\* C22: a 401 error of a request to the sign-out endpoint makes the 401 hook
\* rethrow at once: it suspends nothing, changes nothing of the session
\* and notifies nothing
SignOutEndpoint401IsLeftAlone ==
  [][(/\ ev'.op = "logoutInterceptor"
      /\ ev'.error.status = 401
      /\ OfSignOutEndpoint(ev'.error))
     => (/\ ev'.outcome = "rethrown"
         /\ ev'.notes = <<>>
         /\ ev'.reqs = <<>>
         /\ tasks' = tasks
         /\ authVars' = authVars)]_vars

\* The sign-out request of a session with a current user on the current
\* server was answered 401 and the hook rethrew it
SignOut401Rethrown ==
  /\ ev.op = "logoutInterceptor"
  /\ ev.outcome = "rethrown"
  /\ ev.error.status = 401
  /\ ev.error.url # SessionsLogout
  /\ OfSignOutEndpoint(ev.error)
  /\ HasCurrentUser
  /\ HasCurrentServer

\* The record of the user with the Id on the server is in the array
StoredIn(us, id, serverId) ==
  \E i \in 1..Len(us) : us[i] = [Id |-> id, ServerId |-> serverId]

\* What a hook that forced the local sign-out of the user ev'.id leaves
\* as it rethrows: no current user, the user's record and token removed,
\* no request sent, the one notification `note`
ForcedSignOutDone(note) ==
  /\ currentUserIndex' = -1
  /\ ~StoredIn(users', ev'.id, ev'.arg[1])
  /\ accessTokens'[ev'.id] = NoToken
  /\ ev'.requests = 0
  /\ ev'.notes = <<note>>
  /\ ev'.outcome = "rethrown"

\* C23: a 401 error of another request than the sign-out, arriving while a
\* user is current, is handed back with that user signed out locally
Kicked401SignsCurrentUserOut ==
  [][(ev'.op = "logoutInterceptor.resume" /\ ev'.id # NoId)
     => ForcedSignOutDone("kickedOut")]_vars

\* C24: a 401 error of another request than the sign-out, arriving while no
\* user is current, changes nothing of the session and notifies nothing
No401SignOutWithoutUser ==
  [][/\ (ev'.op = "logoutInterceptor" /\ ~HasCurrentUser) => authVars' = authVars
     /\ (ev'.op = "logoutInterceptor.resume" /\ ev'.id = NoId)
          => (authVars' = authVars /\ ev'.notes = <<>>)]_vars

\* The interceptor call that a step resumed to its end
Rethrowing(task) ==
  /\ task \in Suspended
  /\ task.op \in Interceptors
  /\ tasks' = Resumed(task)

\* C25: a hook ends in no other way than by throwing the error it was
\* handed: at once when its condition does not match, and when it matches
\* after the logoutCurrentUser(true) it awaits has returned
HooksRethrowAfterSignOut ==
  [][/\ \A name \in Interceptors :
          ev'.op = name =>
            /\ ev'.outcome = IF interceptorApplies(name, ev'.error)
                             THEN "pending" ELSE "rethrown"
            /\ ev'.outcome = "pending" =>
                 \E task \in BagToSet(tasks') :
                   /\ task.op = name
                   /\ task.error = ev'.error
                   /\ tasks' = Suspend(tasks, task)
     /\ \A task \in Suspended :
          Rethrowing(task) =>
            /\ ev'.outcome = "rethrown"
            /\ ev'.error = task.error
            /\ task.pc = "logoutCurrentUser"]_vars

\* A hook whose condition matched rethrew after its sign-out had reset the selector
RethrownAfterSignOut ==
  /\ ev.op \in {"logoutInterceptor.resume", "serverUnreachableInterceptor.resume"}
  /\ ev.outcome = "rethrown"
  /\ ev.id # NoId
  /\ ev.error # NoError
  /\ currentUserIndex = -1
  /\ ~StoredIn(users, ev.id, ev.arg[1])

\* C26: the unreachable hook signs the current user out locally and notifies
\* exactly for the errors whose code is ERR_NETWORK; for the others it
\* changes nothing of the session and notifies nothing
UnreachableSignsCurrentUserOut ==
  [][/\ ev'.op = "serverUnreachableInterceptor" =>
          IF ev'.error.code = "ERR_NETWORK"
          THEN ev'.outcome = "pending"
          ELSE /\ ev'.outcome = "rethrown"
               /\ ev'.notes = <<>>
               /\ tasks' = tasks
               /\ authVars' = authVars
     /\ ev'.op = "serverUnreachableInterceptor.resume" =>
          /\ ev'.error.code = "ERR_NETWORK"
          /\ ev'.id # NoId => ForcedSignOutDone("serverNotFound")]_vars

----------------------------------------------------------------------------
(* Overlapping calls *)

\* Two loginUser calls resolved one right after the other, so both were in
\* flight together, each with a user, and the users differ
TwoLoginsResolved ==
  /\ ev.op = "loginUser.resume"
  /\ ev.id # NoId
  /\ ev.prev.op = "loginUser.resume"
  /\ ev.prev.id \notin {NoId, ev.id}

\* C27: when two overlapping loginUser calls for different users both
\* succeed, both records and both tokens are stored and the current user is
\* the one whose response resolved last
LastResolvedLoginWins ==
  TwoLoginsResolved =>
    /\ Len(users) >= 2
    /\ users[Len(users) - 1].Id = ev.prev.id
    /\ users[Len(users)].Id = ev.id
    /\ accessTokens[ev.prev.id] # NoToken
    /\ accessTokens[ev.id] # NoToken
    /\ currentUserIndex = Len(users) - 1

\* Of two logins on the same server, the one issued first resolved last and
\* its user is the current one
FirstIssuedLoginResolvedLast ==
  /\ TwoLoginsResolved
  /\ ev.after = 0
  /\ ev.prev.after = 1
  /\ Len(users) = 2
  /\ users[1].ServerId = users[2].ServerId
  /\ HasCurrentUser
  /\ currentUser.Id = ev.id

\* Two connectServer calls resolved one right after the other, so both were
\* in flight together, and stored different servers of different addresses
TwoProbesResolved ==
  /\ ev.op = "connectServer.resume"
  /\ StoredBy(ev) # NoId
  /\ ev.prev.op = "connectServer.resume"
  /\ ev.prev.id \notin {NoId, ev.id}
  /\ ev.prev.arg # ev.arg

LastResolvedProbeWins ==
  TwoProbesResolved =>
    /\ {ev.prev.id, ev.id} \subseteq IdsOf(servers)
    /\ HasCurrentServer
    /\ currentServer.Id = ev.id

\* C28: a connectServer or loginUser call that is issued leaves every call
\* in flight as it is, and when two overlapping connectServer calls for
\* different servers both succeed, both servers are stored and the current
\* server is the one whose probe resolved last
NewerCallCancelsNothing ==
  [][/\ (ev'.op \in {"connectServer", "loginUser"} /\ ev'.outcome = "pending")
          => \A task \in Suspended : CopiesIn(task, tasks') >= CopiesIn(task, tasks)
     /\ LastResolvedProbeWins']_vars

----------------------------------------------------------------------------
(* The persisted state *)

\* The keys and the default values of the session state
Schema ==
  [servers |-> <<>>, currentServerIndex |-> -1, currentUserIndex |-> -1,
   users |-> <<>>, rememberMe |-> TRUE, accessTokens |-> [u \in UserIds |-> NoToken]]

----------------------------------------------------------------------------
(* The Pinia store's deleteServer *)

\* The step completes a deleteServer of the store
StoreDeleteCompletes ==
  /\ ev'.op \in {"authStore.deleteServer", "authStore.deleteServer.resume"}
  /\ ev'.outcome = "resolved"

\* C30: after the store's deleteServer completes, users holds no user of the
\* deleted server and still holds every user of the other servers.
StoreDeleteDropsItsUsersOnly ==
  [][StoreDeleteCompletes
       => /\ \A i \in 1..Len(users') : users'[i].ServerId # ev'.id
          /\ \A i \in 1..Len(users) :
               users[i].ServerId # ev'.id
                 => \E j \in 1..Len(users') : users'[j] = users[i]]_vars


\* C31: after the store's deleteServer completes for a registered server,
\* servers is what it was with exactly the deleted server's record removed.
StoreDeleteRemovesItsServerOnly ==
  [][StoreDeleteCompletes
       => servers' = SelectSeq(servers, LAMBDA s : s.PublicAddress # ev'.arg)]_vars

\* The step ends a logoutUser of the store that was called with clearUser
StoreLogoutClearing ==
  /\ \/ ev'.op = "authStore.logoutUser" /\ ev'.outcome = "resolved"
     \/ ev'.op = "authStore.logoutUser.resume"
  /\ ev'.arg[1]
  /\ HasCurrentUser

\* C32: the store's logoutUser with clearUser = true and a current user
\* removes that user's record and token, keeps every other record and sets
\* currentUserIndex to -1, also when reportSessionEnded fails.
StoreLogoutRemovesCurrentUserOnly ==
  [][StoreLogoutClearing
       => /\ users' = Splice(users, currentUserIndex)
          /\ accessTokens'[currentUser.Id] = NoToken
          /\ currentUserIndex' = -1]_vars


\* The step is a connectServer of the store that succeeded
StoreConnectSucceeds ==
  /\ ev'.op = "authStore.connectServer.resume"
  /\ ev'.outcome = "resolved"
  /\ ev'.nav = ""

\* C33: after the store's connectServer succeeds, currentServerIndex is a
\* position of servers and the record there has the Id the server reported,
\* also when that Id was registered under another address.
StoreConnectSelectsReportedServer ==
  [][StoreConnectSucceeds
       => /\ currentServerIndex' >= 0
          /\ currentServerIndex' < Len(servers')
          /\ servers'[currentServerIndex' + 1].Id = ev'.id]_vars


----------------------------------------------------------------------------
(* Invariants of the registries *)

\* C34: every user record in users has a token in accessTokens under its Id,
\* also after the same user has signed in twice and one of the two records
\* has been signed out with logoutUser.
StoredUsersHaveTokens ==
  \A i \in 1..Len(users) : accessTokens[users[i].Id] # NoToken


\* C35: whenever there is a current server and a current user, the current
\* user's ServerId is the current server's Id.
CurrentUserIsOfCurrentServer ==
  (HasCurrentServer /\ HasCurrentUser) => currentUser.ServerId = currentServer.Id


\* C36: in every reachable state the ServerId of every user record is the
\* Id of a server in servers, also when a loginUser in flight resolves after
\* deleteServer has removed the server it was issued against.
StoredUsersHaveServers ==
  \A i \in 1..Len(users) : users[i].ServerId \in IdsOf(servers)


----------------------------------------------------------------------------
(* The frame of connectServer *)

\* C37: no step of connectServer changes users, accessTokens or
\* currentUserIndex or issues a logout() request, also when it connects a
\* server whose Id is registered and has signed-in users.
ConnectLeavesUsersAlone ==
  [][ev'.op \in {"connectServer", "connectServer.catch", "connectServer.resume"}
       => /\ UNCHANGED <<users, accessTokens, currentUserIndex>>
          /\ \A i \in 1..Len(ev'.reqs) : ev'.reqs[i] # "logout"]_vars


----------------------------------------------------------------------------
(* loginUser resolving inside a logoutCurrentUser *)

\* A loginUser has just stored its user while a logoutCurrentUser was
\* suspended at `await this.logoutUser(...)`, and that logoutCurrentUser
\* resumes in this step
LoginResolvedInsideLogout ==
  /\ ev.op = "loginUser.resume"
  /\ ev.id # NoId
  /\ ev'.op = "logoutCurrentUser.resume"

\* C38: when a loginUser stores its user while a logoutCurrentUser is
\* suspended between removing the previous current user and resetting
\* currentUserIndex, the user that signed in is the current user once both
\* calls have completed.
LoginInsideLogoutStaysCurrent ==
  [][LoginResolvedInsideLogout
       => /\ currentUserIndex' >= 0
          /\ currentUserIndex' < Len(users')
          /\ users'[currentUserIndex' + 1].Id = ev.id]_vars


----------------------------------------------------------------------------
(* deleteServer returning *)

\* C39: a deleteServer for a registered address returns with the server's
\* record removed from servers, whether or not the logout() requests it has
\* sent are answered.
DeleteReturnsWithServerRemoved ==
  [][/\ (ev'.op = "deleteServer" /\ ev'.outcome = "resolved")
          => findByAddress(servers', ev'.arg) = -1
     /\ (ev'.op = "deleteServer.resume" /\ ev'.outcome = "resolved")
          => \A task \in Suspended :
               task.op = "deleteServer" => task.serverId \notin IdsOf(servers')]_vars


----------------------------------------------------------------------------
(* The hooks installed in the shared axios instance *)

HookNames ==
  {"startLoadInterceptor", "stopLoadInterceptor", "logoutInterceptor",
   "serverUnreachableInterceptor"}

\* The number of handlers of a hook that requests and responses run
InstalledIn(ics, hook) ==
  Cardinality({i \in 1..Len(ics.request) : ics.request[i] = hook})
    + Cardinality({i \in 1..Len(ics.response) : ics.response[i] = hook})

\* The hooks a remove call is to remove
RemovedBy(op) ==
  CASE op = "removeLoadInterceptor" -> {"startLoadInterceptor", "stopLoadInterceptor"}
    [] op = "removeLogoutInterceptor" -> {"logoutInterceptor"}
    [] op = "removeServerUnreachableInterceptor" -> {"serverUnreachableInterceptor"}
    [] OTHER -> {}

\* C40: after any sequence of set and remove calls at most one handler of
\* each hook is installed, after a remove call no handler of its hook is
\* installed, and a remove call leaves the handlers of the other hooks as
\* they were.
HooksInstalledAtMostOnce ==
  [][\A hook \in HookNames :
       /\ InstalledIn(interceptors', hook) <= 1
       /\ hook \in RemovedBy(ev'.op) => InstalledIn(interceptors', hook) = 0
       /\ (RemovedBy(ev'.op) # {} /\ hook \notin RemovedBy(ev'.op))
            => InstalledIn(interceptors', hook) = InstalledIn(interceptors, hook)]_vars

====
